---- MODULE Spec2Model ----
(***************************************************************************)
(* The persistence and integrity layer of s3_learning_project.             *)
(*                                                                         *)
(*   S3Service (s3_service.rs)  the engine: an in-memory map of buckets    *)
(*   Bucket    (bucket.rs)      one bucket: locks the shared Storage and   *)
(*                              forwards to it                             *)
(*   Storage   (storage.rs)     the catalog (SQLite tables buckets and     *)
(*                              objects) and the blob area (files under    *)
(*                              data/buckets/<bucket>/<key>)               *)
(*   ConsistencyChecker (background.rs)  runs Storage::check_consistency   *)
(*                                                                         *)
(* Every request handler holds the S3Service lock for the whole engine     *)
(* call, so engine calls are modelled as atomic steps.  A step may be hit  *)
(* by a failure of the database or of the file system at any of the        *)
(* fallible statements of the storage layer; the environment may also      *)
(* alter a blob file behind the engine's back.                             *)
(*                                                                         *)
(*   Spec         the engine calls and the scan as atomic steps, with      *)
(*                failures injected                                        *)
(*   CatalogSpec  Spec plus direct calls of the catalog operations that no *)
(*                engine path makes                                        *)
(*   ConcSpec     a put and a scan statement by statement, as concurrent   *)
(*                threads                                                  *)
(*   StorageSpec  the mutating operations of Storage called directly       *)
(*   RestartSpec  the engine calls and a restart of the process            *)
(*   CheckerSpec  the checker task: ticks, scans, abort; CheckerLiveSpec   *)
(*                adds the fairness of the timer and of the scan           *)
(*   SlashSpec    names and keys that contain a slash                      *)
(*   MetaSpec     puts and gets with content type and user metadata        *)
(*   LockSpec     concurrent handler calls and the scan lock by lock, with *)
(*                fair lock acquisition                                    *)
(*   RaceSpec     concurrent handler calls on one object, with any bodies  *)
(*                and failing writes                                       *)
(***************************************************************************)
EXTENDS Integers, Sequences, FiniteSets, TLC

\* Bucket names and object keys.  Two buckets with one key each give two
\* objects, in different buckets, under the same key.
BucketNames == {"b1", "b2"}
ObjectKeys == {"k1"}

\* Names are arbitrary strings: nothing in the engine or in the storage layer
\* restricts them, and a "/" in a name is a path separator in the blob area.
SlashBucketNames == {"b1", "b1/b2"}
SlashObjectKeys == {"k1", "b2/k1"}

\* Payloads are byte strings of at most MaxLen bytes over ByteValues: two
\* payloads differ in their length, and a proper prefix of a payload is a
\* payload.
ByteValues == {0}
MaxLen == 1
Data == UNION {[1..n -> ByteValues] : n \in 0..MaxLen}

\* Option<T>
None == <<>>
Some(x) == <<x>>

VARIABLES
    buckets,      \* S3Service.buckets: the names held by the in-memory map
    db_buckets,   \* catalog table buckets: the set of name values
    db_objects,   \* catalog table objects: its rows, in rowid order
    fs,           \* blob area: the files that exist, path -> bytes
    last,         \* the call that has just completed and what it returned
    faulted,      \* history: the environment made a statement of some call
                  \* fail (an I/O or database failure), or a blob file was
                  \* changed from outside the engine
    handler,      \* the request handler that holds the S3Service lock, if
                  \* any: where it stands in its engine call, and the request
    checker,      \* the ConsistencyChecker task: where it stands in its scan
    locks         \* who holds each mutex

vars == <<buckets, db_buckets, db_objects, fs, last, faulted, handler, checker, locks>>

\* The storage handle's state as one value.
St == [buckets |-> db_buckets, objects |-> db_objects, fs |-> fs]

-----------------------------------------------------------------------------
(* storage.rs: helpers *)

\* calculate_etag: the hex MD5 digest of the bytes.  MD5 is modelled as a
\* collision-free digest: the bijective base-Radix numeral of the byte string.
Radix == Cardinality(ByteValues) + 1
RECURSIVE Digest(_)
Digest(data) ==
    IF data = <<>> THEN 0
    ELSE (Head(data) + 1) + Radix * Digest(Tail(data))

calculate_etag(data) == Digest(data)

\* The components of a name as a path: Path::join splits a name at every
\* "/" in it.
Segments(name) ==
    CASE name = "b1/b2" -> <<"b1", "b2">>
      [] name = "b2/k1" -> <<"b2", "k1">>
      [] OTHER -> <<name>>

\* base_path.join("buckets").join(bucket).join(&object.key)
FilePath(bucket, key) == <<"data", "buckets">> \o Segments(bucket) \o Segments(key)

\* fs::write on success: the file holds exactly the bytes given.
WriteFile(files, path, data) ==
    [p \in (DOMAIN files) \cup {path} |-> IF p = path THEN data ELSE files[p]]

\* fs::remove_file
RemoveFile(files, path) ==
    [p \in (DOMAIN files) \ {path} |-> files[p]]

\* WHERE bucket_name = ?1 AND key = ?2
Matching(objects, bucket, key) ==
    SelectSeq(objects, LAMBDA r : r.bucket_name = bucket /\ r.key = key)

\* INSERT OR REPLACE INTO objects: the rows that conflict with the new row on
\* the primary key (bucket_name, key) or on UNIQUE file_path are deleted, and
\* the new row gets a fresh rowid, after all others.
Upsert(objects, row) ==
    Append(SelectSeq(objects,
                     LAMBDA r : ~(r.bucket_name = row.bucket_name /\ r.key = row.key)
                                /\ r.file_path # row.file_path),
           row)

\* Object.content_type and Object.user_metadata are Options; an Object built
\* from a key and its bytes alone has None for both.
ContentTypeOf(object) ==
    IF "content_type" \in DOMAIN object THEN object.content_type ELSE None

UserMetadataOf(object) ==
    IF "user_metadata" \in DOMAIN object THEN object.user_metadata ELSE None

\* serde_json::to_string of a HashMap<String, String>: a JSON object, one
\* member (name, value) for each entry of the map.
ToJson(map) == {<<name, map[name]>> : name \in DOMAIN map}

\* serde_json::from_str into a HashMap<String, String>: the map that has an
\* entry for each member of the JSON object.
FromJson(json) ==
    [name \in {m[1] : m \in json} |-> (CHOOSE m \in json : m[1] = name)[2]]

\* put_object: metadata_json is Some(serde_json::to_string(map)) for Some(map)
\* and None (SQL NULL) for None.
MetadataJson(object) ==
    IF UserMetadataOf(object) = None
    THEN None
    ELSE Some(ToJson(UserMetadataOf(object)[1]))

\* get_object: metadata_json.map(|s| serde_json::from_str(&s)).transpose()
UserMetadataOfRow(row) ==
    IF row.metadata = None THEN None ELSE Some(FromJson(row.metadata[1]))

\* The StorageError variants that report a failure of the database or of the
\* file system.
FailureKinds == {"DatabaseError", "IoError", "TransactionCommitError"}

-----------------------------------------------------------------------------
(* storage.rs: Storage.  Each operation takes the storage state st and the   *)
(* statement at which the environment makes it fail (fault, "none" for a     *)
(* run without failure) and yields the state it leaves and its result.       *)

\* The statements of put_object that can fail:
\*   "begin"   conn.transaction() or the INSERT OR IGNORE INTO buckets
\*   "create"  fs::create_dir_all, or fs::write failing to open the file
\*   "write"   fs::write failing after it truncated the file and wrote the
\*             first `written` bytes (written < data.len())
\*   "upsert"  the INSERT OR REPLACE INTO objects (or the clock read before it)
\*   "commit"  tx.commit()
\* An early return drops the transaction, which rolls the catalog back; the
\* file system is not part of the transaction.
PutFaults == {"none", "begin", "create", "write", "upsert", "commit"}

\* Faulty variant: the row is committed but the blob is never written.
Storage_put_object_SkipsBlobWrite(st, bucket, object, fault, written) ==
    LET row == [bucket_name |-> bucket,
                key         |-> object.key,
                file_path   |-> FilePath(bucket, object.key),
                etag        |-> calculate_etag(object.data),
                size        |-> Len(object.data),
                content_type |-> ContentTypeOf(object),
                metadata    |-> MetadataJson(object)]
    IN  IF fault = "none"
        THEN [st |-> [st EXCEPT !.buckets = st.buckets \cup {bucket},
                                !.objects = Upsert(st.objects, row)],
              kind |-> "Ok"]
        ELSE [st |-> st, kind |-> "IoError"]

\* Faulty variant: there is no INSERT OR IGNORE INTO buckets, and the foreign
\* key of the object row rejects a bucket that has no row.
Storage_put_object_RequiresBucketRow(st, bucket, object, fault, written) ==
    LET file_path == FilePath(bucket, object.key)
        row == [bucket_name |-> bucket,
                key         |-> object.key,
                file_path   |-> file_path,
                etag        |-> calculate_etag(object.data),
                size        |-> Len(object.data),
                content_type |-> ContentTypeOf(object),
                metadata    |-> MetadataJson(object)]
        wrote == [st EXCEPT !.fs = WriteFile(st.fs, file_path, object.data)]
    IN  CASE fault = "begin" ->
               [st |-> st, kind |-> "DatabaseError"]
          [] fault = "create" ->
               [st |-> st, kind |-> "IoError"]
          [] fault = "write" ->
               [st |-> [st EXCEPT !.fs = WriteFile(st.fs, file_path,
                                                   SubSeq(object.data, 1, written))],
                kind |-> "IoError"]
          [] fault = "upsert" \/ bucket \notin st.buckets ->
               [st |-> wrote, kind |-> "DatabaseError"]
          [] fault = "commit" ->
               [st |-> wrote, kind |-> "TransactionCommitError"]
          [] OTHER ->
               [st |-> [wrote EXCEPT !.objects = Upsert(st.objects, row)],
                kind |-> "Ok"]

\* Faulty variant: the INSERT OR IGNORE INTO buckets takes effect at once, so
\* a put that fails later leaves the bucket row behind.
Storage_put_object_KeepsBucketRow(st, bucket, object, fault, written) ==
    LET file_path == FilePath(bucket, object.key)
        row == [bucket_name |-> bucket,
                key         |-> object.key,
                file_path   |-> file_path,
                etag        |-> calculate_etag(object.data),
                size        |-> Len(object.data),
                content_type |-> ContentTypeOf(object),
                metadata    |-> MetadataJson(object)]
        ensured == [st EXCEPT !.buckets = st.buckets \cup {bucket}]
        wrote == [ensured EXCEPT !.fs = WriteFile(st.fs, file_path, object.data)]
    IN  CASE fault = "begin" ->
               [st |-> st, kind |-> "DatabaseError"]
          [] fault = "create" ->
               [st |-> ensured, kind |-> "IoError"]
          [] fault = "write" ->
               [st |-> [ensured EXCEPT !.fs = WriteFile(st.fs, file_path,
                                                        SubSeq(object.data, 1, written))],
                kind |-> "IoError"]
          [] fault = "upsert" ->
               [st |-> wrote, kind |-> "DatabaseError"]
          [] fault = "commit" ->
               [st |-> wrote, kind |-> "TransactionCommitError"]
          [] OTHER ->
               [st |-> [wrote EXCEPT !.objects = Upsert(st.objects, row)],
                kind |-> "Ok"]

\* Faulty variant: the row is upserted and committed first and the blob is
\* written afterwards, so a failed blob write leaves the new row behind.
Storage_put_object_RowBeforeBlob(st, bucket, object, fault, written) ==
    LET file_path == FilePath(bucket, object.key)
        row == [bucket_name |-> bucket,
                key         |-> object.key,
                file_path   |-> file_path,
                etag        |-> calculate_etag(object.data),
                size        |-> Len(object.data),
                content_type |-> ContentTypeOf(object),
                metadata    |-> MetadataJson(object)]
        committed == [st EXCEPT !.buckets = st.buckets \cup {bucket},
                                !.objects = Upsert(st.objects, row)]
    IN  CASE fault \in {"begin", "upsert"} ->
               [st |-> st, kind |-> "DatabaseError"]
          [] fault = "commit" ->
               [st |-> st, kind |-> "TransactionCommitError"]
          [] fault = "create" ->
               [st |-> committed, kind |-> "IoError"]
          [] fault = "write" ->
               [st |-> [committed EXCEPT
                          !.fs = WriteFile(st.fs, file_path,
                                           SubSeq(object.data, 1, written))],
                kind |-> "IoError"]
          [] OTHER ->
               [st |-> [committed EXCEPT
                          !.fs = WriteFile(st.fs, file_path, object.data)],
                kind |-> "Ok"]

Storage_put_object(st, bucket, object, fault, written) ==
    LET file_path == FilePath(bucket, object.key)
        row == [bucket_name |-> bucket,
                key         |-> object.key,
                file_path   |-> file_path,
                etag        |-> calculate_etag(object.data),
                size        |-> Len(object.data),
                content_type |-> ContentTypeOf(object),
                metadata    |-> MetadataJson(object)]
        wrote == [st EXCEPT !.fs = WriteFile(st.fs, file_path, object.data)]
    IN  CASE fault = "begin" ->
               [st |-> st, kind |-> "DatabaseError"]
          [] fault = "create" ->
               [st |-> st, kind |-> "IoError"]
          [] fault = "write" ->
               [st |-> [st EXCEPT !.fs = WriteFile(st.fs, file_path,
                                                   SubSeq(object.data, 1, written))],
                kind |-> "IoError"]
          [] fault = "upsert" ->
               [st |-> wrote, kind |-> "DatabaseError"]
          [] fault = "commit" ->
               [st |-> wrote, kind |-> "TransactionCommitError"]
          [] OTHER ->
               [st |-> [buckets |-> st.buckets \cup {bucket},
                        objects |-> Upsert(st.objects, row),
                        fs      |-> wrote.fs],
                kind |-> "Ok"]

\* The statements of get_object that can fail: "db" (prepare, query, column
\* reads) and "read" (fs::read of a file that exists; a missing file fails
\* the read without any injected fault).
GetFaults == {"none", "db", "read"}

\* Faulty variant: the bytes are returned without comparing their hash with the etag.
Storage_get_object_NoEtagCheck(st, bucket, key, fault) ==
    LET rows == Matching(st.objects, bucket, key)
        Err(kind) == [kind |-> kind, data |-> None, etag |-> None,
                      content_type |-> None, user_metadata |-> None]
    IN  IF fault = "db" THEN Err("DatabaseError")
        ELSE IF rows = <<>> THEN Err("ObjectNotFound")
        ELSE IF fault = "read" \/ Head(rows).file_path \notin DOMAIN st.fs
        THEN Err("IoError")
        ELSE [kind |-> "Ok",
              data |-> Some(st.fs[Head(rows).file_path]),
              etag |-> Some(Head(rows).etag),
              content_type |-> Head(rows).content_type,
              user_metadata |-> UserMetadataOfRow(Head(rows))]

\* Faulty variant: a row whose blob file is missing is reported as a missing
\* object.
Storage_get_object_MissingBlobNotFound(st, bucket, key, fault) ==
    LET rows == Matching(st.objects, bucket, key)
        Err(kind) == [kind |-> kind, data |-> None, etag |-> None,
                      content_type |-> None, user_metadata |-> None]
    IN  IF fault = "db" THEN Err("DatabaseError")
        ELSE IF rows = <<>> THEN Err("ObjectNotFound")
        ELSE LET row == Head(rows)
             IN  IF row.file_path \notin DOMAIN st.fs
                 THEN Err("ObjectNotFound")
                 ELSE IF fault = "read"
                 THEN Err("IoError")
                 ELSE LET data == st.fs[row.file_path]
                      IN  IF calculate_etag(data) # row.etag
                          THEN Err("IntegrityError")
                          ELSE [kind |-> "Ok",
                                data |-> Some(data),
                                etag |-> Some(row.etag),
                                content_type |-> row.content_type,
                                user_metadata |-> UserMetadataOfRow(row)]

Storage_get_object(st, bucket, key, fault) ==
    LET rows == Matching(st.objects, bucket, key)
        Err(kind) == [kind |-> kind, data |-> None, etag |-> None,
                      content_type |-> None, user_metadata |-> None]
    IN  IF fault = "db" THEN Err("DatabaseError")
        ELSE IF rows = <<>> THEN Err("ObjectNotFound")
        ELSE LET row == Head(rows)
             IN  IF fault = "read" \/ row.file_path \notin DOMAIN st.fs
                 THEN Err("IoError")
                 ELSE LET data == st.fs[row.file_path]
                      IN  IF calculate_etag(data) # row.etag
                          THEN Err("IntegrityError")
                          ELSE [kind |-> "Ok",
                                data |-> Some(data),
                                etag |-> Some(row.etag),
                                content_type |-> row.content_type,
                                user_metadata |-> UserMetadataOfRow(row)]

\* The statements of delete_object that can fail:
\*   "query"   the SELECT file_path, conn.transaction() or the DELETE
\*   "remove"  fs::remove_file of a blob that exists
\*   "commit"  tx.commit(), after the blob was removed
DeleteFaults == {"none", "query", "remove", "commit"}

\* Faulty variant: a delete that affects no row rolls back and returns Ok(false).
Storage_delete_object_ReturnsFalse(st, bucket, key, fault) ==
    LET found == Matching(st.objects, bucket, key)
        remaining ==
            SelectSeq(st.objects, LAMBDA r : ~(r.bucket_name = bucket /\ r.key = key))
        exists == found # <<>> /\ Head(found).file_path \in DOMAIN st.fs
        removed_fs == IF exists THEN RemoveFile(st.fs, Head(found).file_path) ELSE st.fs
    IN  IF fault = "query"
        THEN [st |-> st, kind |-> "DatabaseError", removed |-> None]
        ELSE IF found # <<>>
        THEN IF exists /\ fault = "remove"
             THEN [st |-> st, kind |-> "IoError", removed |-> None]
             ELSE IF fault = "commit"
             THEN [st |-> [st EXCEPT !.fs = removed_fs],
                   kind |-> "TransactionCommitError", removed |-> None]
             ELSE [st |-> [st EXCEPT !.objects = remaining, !.fs = removed_fs],
                   kind |-> "Ok", removed |-> Some(TRUE)]
        ELSE [st |-> st, kind |-> "Ok", removed |-> Some(FALSE)]

\* Faulty variant: the row is deleted and the blob file is left behind.
Storage_delete_object_KeepsBlob(st, bucket, key, fault) ==
    LET found == Matching(st.objects, bucket, key)
        remaining ==
            SelectSeq(st.objects, LAMBDA r : ~(r.bucket_name = bucket /\ r.key = key))
    IN  IF fault = "query"
        THEN [st |-> st, kind |-> "DatabaseError", removed |-> None]
        ELSE IF found # <<>>
        THEN IF fault = "commit"
             THEN [st |-> st, kind |-> "TransactionCommitError", removed |-> None]
             ELSE [st |-> [st EXCEPT !.objects = remaining],
                   kind |-> "Ok", removed |-> Some(TRUE)]
        ELSE [st |-> st, kind |-> "ObjectNotFound", removed |-> None]

\* Faulty variant: fs::remove_file is called without asking whether the file
\* exists, so a row whose blob is missing cannot be deleted.
Storage_delete_object_FailsOnMissingBlob(st, bucket, key, fault) ==
    LET found == Matching(st.objects, bucket, key)
        remaining ==
            SelectSeq(st.objects, LAMBDA r : ~(r.bucket_name = bucket /\ r.key = key))
    IN  IF fault = "query"
        THEN [st |-> st, kind |-> "DatabaseError", removed |-> None]
        ELSE IF found # <<>>
        THEN IF Head(found).file_path \notin DOMAIN st.fs \/ fault = "remove"
             THEN [st |-> st, kind |-> "IoError", removed |-> None]
             ELSE IF fault = "commit"
             THEN [st |-> [st EXCEPT !.fs = RemoveFile(st.fs, Head(found).file_path)],
                   kind |-> "TransactionCommitError", removed |-> None]
             ELSE [st |-> [st EXCEPT !.objects = remaining,
                                     !.fs = RemoveFile(st.fs, Head(found).file_path)],
                   kind |-> "Ok", removed |-> Some(TRUE)]
        ELSE [st |-> st, kind |-> "ObjectNotFound", removed |-> None]

Storage_delete_object(st, bucket, key, fault) ==
    LET found == Matching(st.objects, bucket, key)
        file_path_to_delete_option ==
            IF found = <<>> THEN None ELSE Some(Head(found).file_path)
        remaining ==
            SelectSeq(st.objects, LAMBDA r : ~(r.bucket_name = bucket /\ r.key = key))
        rows_affected == Len(st.objects) - Len(remaining)
        exists == /\ file_path_to_delete_option # None
                  /\ file_path_to_delete_option[1] \in DOMAIN st.fs
        removed_fs == IF exists
                      THEN RemoveFile(st.fs, file_path_to_delete_option[1])
                      ELSE st.fs
    IN  IF fault = "query"
        THEN [st |-> st, kind |-> "DatabaseError", removed |-> None]
        ELSE IF rows_affected > 0
        THEN IF exists /\ fault = "remove"
             THEN [st |-> st, kind |-> "IoError", removed |-> None]
             ELSE IF fault = "commit"
             THEN [st |-> [st EXCEPT !.fs = removed_fs],
                   kind |-> "TransactionCommitError", removed |-> None]
             ELSE [st |-> [st EXCEPT !.objects = remaining, !.fs = removed_fs],
                   kind |-> "Ok", removed |-> Some(TRUE)]
        ELSE [st |-> st, kind |-> "ObjectNotFound", removed |-> None]

\* list_objects: SELECT key FROM objects WHERE bucket_name = ?1
RECURSIVE KeysOf(_)
KeysOf(rows) ==
    IF rows = <<>> THEN <<>> ELSE <<Head(rows).key>> \o KeysOf(Tail(rows))

Storage_list_objects(st, bucket) ==
    KeysOf(SelectSeq(st.objects, LAMBDA r : r.bucket_name = bucket))

\* bucket_exists: SELECT 1 FROM buckets WHERE name = ?1
Storage_bucket_exists(st, bucket_name) == bucket_name \in st.buckets

\* create_bucket: INSERT INTO buckets; the UNIQUE constraint rejects a name
\* that has a row.  fault: "none", "insert" (the INSERT fails for another
\* reason) or "commit".
CreateFaults == {"none", "insert", "commit"}

Storage_create_bucket(st, bucket_name, fault) ==
    IF bucket_name \in st.buckets
    THEN [st |-> st, kind |-> "BucketAlreadyExistsInStorage"]
    ELSE IF fault \in {"insert", "commit"}
    THEN [st |-> st, kind |-> "DatabaseError"]
    ELSE [st |-> [st EXCEPT !.buckets = st.buckets \cup {bucket_name}],
          kind |-> "Ok"]

\* _delete_bucket: DELETE FROM buckets WHERE name = ?1.  fault: "none",
\* "delete" (conn.transaction() or the DELETE fails) or "commit".  The object
\* rows of the bucket go with it (ON DELETE CASCADE) only on a connection that
\* enforces foreign keys, which is a property of the SQLite build the sources
\* do not fix: cascade ranges over both outcomes.  No blob file is touched.
DeleteBucketFaults == {"none", "delete", "commit"}

Storage_delete_bucket(st, bucket, fault, cascade) ==
    IF fault = "delete"
    THEN [st |-> st, kind |-> "DatabaseError"]
    ELSE IF bucket \notin st.buckets
    THEN [st |-> st, kind |-> "BucketNotFoundInStorage"]
    ELSE IF fault = "commit"
    THEN [st |-> st, kind |-> "TransactionCommitError"]
    ELSE [st |-> [st EXCEPT
                    !.buckets = st.buckets \ {bucket},
                    !.objects = IF cascade
                                THEN SelectSeq(st.objects,
                                               LAMBDA r : r.bucket_name # bucket)
                                ELSE st.objects],
          kind |-> "Ok"]

\* check_consistency: scans the rows in rowid order and stops at the first
\* row whose file is missing or whose bytes do not hash to the stored etag.
\* Nothing is written and the transaction is never committed.
\* fault: "none", "db" (conn.transaction(), prepare or query fails) or "read"
\* (the fs::read of the at-th row scanned fails).
CheckFaults == {"none", "db", "read"}

RECURSIVE Scan(_, _, _, _)
Scan(st, rows, i, failAt) ==
    IF rows = <<>>
    THEN [kind |-> "Ok", bucket |-> "-", key |-> "-"]
    ELSE LET row == Head(rows)
         IN  IF row.file_path \notin DOMAIN st.fs
             THEN [kind |-> "ConsistencyError", bucket |-> row.bucket_name, key |-> row.key]
             ELSE IF i = failAt
             THEN [kind |-> "IoError", bucket |-> "-", key |-> "-"]
             ELSE IF calculate_etag(st.fs[row.file_path]) # row.etag
             THEN [kind |-> "ConsistencyError", bucket |-> row.bucket_name, key |-> row.key]
             ELSE Scan(st, Tail(rows), i + 1, failAt)

\* Faulty variant: the scan verifies that each file exists and never compares hashes.
Storage_check_consistency_ExistenceOnly(st, fault, at) ==
    IF fault = "db"
    THEN [st |-> st, kind |-> "DatabaseError", bucket |-> "-", key |-> "-"]
    ELSE IF \E i \in DOMAIN st.objects : st.objects[i].file_path \notin DOMAIN st.fs
    THEN LET i == CHOOSE i \in DOMAIN st.objects :
                     /\ st.objects[i].file_path \notin DOMAIN st.fs
                     /\ \A j \in 1..(i - 1) : st.objects[j].file_path \in DOMAIN st.fs
         IN  [st |-> st, kind |-> "ConsistencyError",
              bucket |-> st.objects[i].bucket_name, key |-> st.objects[i].key]
    ELSE [st |-> st, kind |-> "Ok", bucket |-> "-", key |-> "-"]

\* Faulty variant: the scan repairs what it finds, deleting the row of the
\* first violation it reports.
Storage_check_consistency_Repairs(st, fault, at) ==
    LET r == IF fault = "db"
             THEN [kind |-> "DatabaseError", bucket |-> "-", key |-> "-"]
             ELSE Scan(st, st.objects, 1, IF fault = "read" THEN at ELSE 0)
    IN  [st     |-> IF r.kind = "ConsistencyError"
                    THEN [st EXCEPT !.objects =
                             SelectSeq(st.objects,
                                       LAMBDA o : ~(o.bucket_name = r.bucket
                                                    /\ o.key = r.key))]
                    ELSE st,
         kind   |-> r.kind,
         bucket |-> r.bucket,
         key    |-> r.key]

\* Faulty variant: the scan goes on after a violation and reports the last
\* violating row instead of the first.
Storage_check_consistency_ReportsLast(st, fault, at) ==
    LET bad == {i \in DOMAIN st.objects :
                   \/ st.objects[i].file_path \notin DOMAIN st.fs
                   \/ calculate_etag(st.fs[st.objects[i].file_path]) # st.objects[i].etag}
        i == CHOOSE i \in bad : \A j \in bad : j <= i
    IN  IF fault = "db"
        THEN [st |-> st, kind |-> "DatabaseError", bucket |-> "-", key |-> "-"]
        ELSE IF bad = {}
        THEN [st |-> st, kind |-> "Ok", bucket |-> "-", key |-> "-"]
        ELSE [st |-> st, kind |-> "ConsistencyError",
              bucket |-> st.objects[i].bucket_name, key |-> st.objects[i].key]

\* Faulty variant: the scan moves the blob of the violation it reports out of
\* the blob area.
Storage_check_consistency_RemovesBlob(st, fault, at) ==
    LET r == IF fault = "db"
             THEN [kind |-> "DatabaseError", bucket |-> "-", key |-> "-"]
             ELSE Scan(st, st.objects, 1, IF fault = "read" THEN at ELSE 0)
    IN  [st     |-> IF r.kind = "ConsistencyError"
                    THEN [st EXCEPT !.fs = RemoveFile(st.fs, FilePath(r.bucket, r.key))]
                    ELSE st,
         kind   |-> r.kind,
         bucket |-> r.bucket,
         key    |-> r.key]

\* The statements of check_consistency are a SELECT and file reads; the
\* transaction is dropped without a commit: the state it leaves is st.
Storage_check_consistency(st, fault, at) ==
    LET r == IF fault = "db"
             THEN [kind |-> "DatabaseError", bucket |-> "-", key |-> "-"]
             ELSE Scan(st, st.objects, 1, IF fault = "read" THEN at ELSE 0)
    IN  [st |-> st, kind |-> r.kind, bucket |-> r.bucket, key |-> r.key]

-----------------------------------------------------------------------------
(* bucket.rs: Bucket.  Each method locks the shared Storage for one call.   *)

\* Bucket::put_object: the result of Storage::put_object is discarded
\* (`let _ = ...; Ok(())`).  inner keeps it for the record.
Bucket_put_object(st, name, object, fault, written) ==
    LET r == Storage_put_object(st, name, object, fault, written)
    IN  [st |-> r.st, kind |-> "Ok", inner |-> r.kind]

\* Bucket::get_object: an error becomes BucketError::StorageError(e.to_string());
\* cause is the StorageError variant the message was rendered from.
Bucket_get_object(st, name, key, fault) ==
    LET r == Storage_get_object(st, name, key, fault)
    IN  IF r.kind = "Ok"
        THEN [kind |-> "Ok", cause |-> "-", data |-> r.data, etag |-> r.etag,
              content_type |-> r.content_type, user_metadata |-> r.user_metadata]
        ELSE [kind |-> "StorageError", cause |-> r.kind, data |-> None, etag |-> None,
              content_type |-> None, user_metadata |-> None]

\* Bucket::delete_object
Bucket_delete_object(st, name, key, fault) ==
    LET r == Storage_delete_object(st, name, key, fault)
    IN  IF r.kind = "Ok"
        THEN [st |-> r.st, kind |-> "Ok", cause |-> "-", removed |-> r.removed]
        ELSE [st |-> r.st, kind |-> "StorageError", cause |-> r.kind, removed |-> None]

\* Bucket::list_objects (the SELECT is taken not to fail)
Bucket_list_objects(st, name) == Storage_list_objects(st, name)

-----------------------------------------------------------------------------
(* s3_service.rs: S3Service.  bs is the set of keys of S3Service.buckets;   *)
(* the Bucket stored under a name carries that name.                        *)

\* S3Service::create_bucket: only the in-memory map is changed.
S3Service_create_bucket(bs, name) ==
    IF name \in bs
    THEN [buckets |-> bs, kind |-> "BucketAlreadyExists"]
    ELSE [buckets |-> bs \cup {name}, kind |-> "Ok"]

\* Faulty variant: deleting a bucket the engine does not hold succeeds.
S3Service_delete_bucket_OkForMissing(bs, name) ==
    [buckets |-> bs \ {name}, kind |-> "Ok"]

\* S3Service::delete_bucket: only the in-memory map is changed.
S3Service_delete_bucket(bs, name) ==
    IF name \in bs
    THEN [buckets |-> bs \ {name}, kind |-> "Ok"]
    ELSE [buckets |-> bs, kind |-> "BucketNotFound"]

\* S3Service::list_buckets: the keys of the map (in no particular order)
S3Service_list_buckets(bs) == bs

\* Faulty variant: the object is written without asking whether the engine
\* holds the bucket.
S3Service_put_object_NoBucketCheck(bs, st, bucket_name, object, fault, written, getFault) ==
    LET w == Bucket_put_object(st, bucket_name, object, fault, written)
        stored_object == Bucket_get_object(w.st, bucket_name, object.key, getFault)
    IN  [st    |-> w.st,
         kind  |-> IF stored_object.kind = "Ok" THEN "Ok" ELSE "BucketError",
         cause |-> stored_object.cause,
         inner |-> w.inner,
         data  |-> stored_object.data,
         etag  |-> stored_object.etag,
         content_type |-> stored_object.content_type,
         user_metadata |-> stored_object.user_metadata]

\* S3Service::put_object: the write's result is discarded and the object is
\* read back; the outcome of the call is the outcome of that read.
S3Service_put_object(bs, st, bucket_name, object, fault, written, getFault) ==
    IF bucket_name \in bs
    THEN LET w == Bucket_put_object(st, bucket_name, object, fault, written)
             stored_object == Bucket_get_object(w.st, bucket_name, object.key, getFault)
         IN  [st    |-> w.st,
              kind  |-> IF stored_object.kind = "Ok" THEN "Ok" ELSE "BucketError",
              cause |-> stored_object.cause,
              inner |-> w.inner,
              data  |-> stored_object.data,
              etag  |-> stored_object.etag,
              content_type |-> stored_object.content_type,
              user_metadata |-> stored_object.user_metadata]
    ELSE [st |-> st, kind |-> "BucketNotFound", cause |-> "-", inner |-> "-",
          data |-> None, etag |-> None,
          content_type |-> None, user_metadata |-> None]

\* Faulty variant: the object is looked up in the catalog without asking whether the
\* engine holds the bucket.
S3Service_get_object_NoBucketCheck(bs, st, bucket_name, key, fault) ==
    LET r == Bucket_get_object(st, bucket_name, key, fault)
    IN  [kind  |-> IF r.kind = "Ok" THEN "Ok" ELSE "BucketError",
         cause |-> r.cause, data |-> r.data, etag |-> r.etag,
         content_type |-> r.content_type, user_metadata |-> r.user_metadata]

\* S3Service::get_object
S3Service_get_object(bs, st, bucket_name, key, fault) ==
    IF bucket_name \in bs
    THEN LET r == Bucket_get_object(st, bucket_name, key, fault)
         IN  [kind  |-> IF r.kind = "Ok" THEN "Ok" ELSE "BucketError",
              cause |-> r.cause, data |-> r.data, etag |-> r.etag,
              content_type |-> r.content_type, user_metadata |-> r.user_metadata]
    ELSE [kind |-> "BucketNotFound", cause |-> "-", data |-> None, etag |-> None,
          content_type |-> None, user_metadata |-> None]

\* S3Service::delete_object: every error of the bucket is reported as
\* ObjectNotFound.
S3Service_delete_object(bs, st, bucket_name, key, fault) ==
    IF bucket_name \in bs
    THEN LET r == Bucket_delete_object(st, bucket_name, key, fault)
         IN  [st      |-> r.st,
              kind    |-> IF r.kind = "Ok" THEN "Ok" ELSE "ObjectNotFound",
              inner   |-> IF r.kind = "Ok" THEN "Ok" ELSE r.cause,
              removed |-> r.removed]
    ELSE [st |-> st, kind |-> "BucketNotFound", inner |-> "-", removed |-> None]

\* Faulty variant: a bucket the engine does not hold is listed as empty.
S3Service_list_objects_EmptyForMissing(bs, st, bucket_name) ==
    [kind |-> "Ok", names |-> Bucket_list_objects(st, bucket_name)]

\* S3Service::list_objects
S3Service_list_objects(bs, st, bucket_name) ==
    IF bucket_name \in bs
    THEN [kind |-> "Ok", names |-> Bucket_list_objects(st, bucket_name)]
    ELSE [kind |-> "BucketNotFound", names |-> <<>>]

-----------------------------------------------------------------------------
(* The engine's calls as steps.  last records the call and what the caller  *)
(* got: kind is the S3Error variant (or "Ok"), cause the StorageError       *)
(* variant behind a BucketError, inner the result of the storage-layer      *)
(* write or delete that the call performed, status the HTTP status of the   *)
(* answer where the handler is modelled (0 otherwise).                      *)

Blank == [op |-> "init", bucket |-> "-", key |-> "-", bytes |-> None,
          kind |-> "-", cause |-> "-", inner |-> "-",
          data |-> None, etag |-> None, removed |-> None, names |-> <<>>,
          content_type |-> None, user_metadata |-> None, status |-> 0]

\* A request handler locks the Arc<Mutex<S3Service>> first and keeps it to
\* the end of its engine call, so at most one handler is inside the engine at
\* a time: handler describes that one.  Under Spec an engine call is one step
\* and handler is idle between steps.
HandlerIdle == [pc |-> "idle", bucket |-> "-", key |-> "-", data |-> <<>>]

\* The task spawned by ConsistencyChecker::start.  rows is the result set of
\* the scan's SELECT, i the next row of it, seen what the scan read for the
\* row it examined last: the etag of the row and the bytes of its file.
\* pc is "idle" while the task waits in interval.tick() or for the lock,
\* "scanning" inside check_consistency, "cancelled" once the task was dropped;
\* aborted tells that JoinHandle::abort was called.
CheckerIdle == [pc |-> "idle", rows |-> <<>>, i |-> 0, seen |-> None,
                aborted |-> FALSE]

\* service:  the std::sync::Mutex<S3Service> of the handlers (main.rs)
\* storage:  the std::sync::Mutex<Storage> the buckets of the engine lock
\* checker_storage:  the tokio::sync::Mutex<Storage> the checker locks
LocksFree == [service |-> "free", storage |-> "free", checker_storage |-> "free"]

\* The orders in which a HashMap may yield its keys.
Orderings(S) ==
    {s \in [1..Cardinality(S) -> S] : \A i, j \in DOMAIN s : i # j => s[i] # s[j]}

Init ==
    /\ buckets = {}
    /\ db_buckets = {}
    /\ db_objects = <<>>
    /\ fs = <<>>
    /\ last = Blank
    /\ faulted = FALSE
    /\ handler = HandlerIdle
    /\ checker = CheckerIdle
    /\ locks = LocksFree

CreateBucket(name) ==
    LET r == S3Service_create_bucket(buckets, name)
    IN  /\ buckets' = r.buckets
        /\ last' = [Blank EXCEPT !.op = "create_bucket", !.bucket = name, !.kind = r.kind]
        /\ UNCHANGED <<db_buckets, db_objects, fs, faulted, handler, checker, locks>>

DeleteBucket(name) ==
    LET r == S3Service_delete_bucket(buckets, name)
    IN  /\ buckets' = r.buckets
        /\ last' = [Blank EXCEPT !.op = "delete_bucket", !.bucket = name, !.kind = r.kind]
        /\ UNCHANGED <<db_buckets, db_objects, fs, faulted, handler, checker, locks>>

ListBuckets ==
    /\ \E names \in Orderings(S3Service_list_buckets(buckets)) :
           last' = [Blank EXCEPT !.op = "list_buckets", !.kind = "Ok", !.names = names]
    /\ UNCHANGED <<buckets, db_buckets, db_objects, fs, faulted, handler, checker, locks>>

PutObject(bucket_name, key, data, fault, written, getFault) ==
    /\ IF fault = "write" THEN written < Len(data) ELSE written = 0
    /\ \E r \in {S3Service_put_object(buckets, St, bucket_name,
                                      [key |-> key, data |-> data],
                                      fault, written, getFault)} :
           /\ db_buckets' = r.st.buckets
           /\ db_objects' = r.st.objects
           /\ fs' = r.st.fs
           /\ last' = [Blank EXCEPT !.op = "put_object", !.bucket = bucket_name,
                                    !.key = key, !.bytes = Some(data),
                                    !.kind = r.kind, !.cause = r.cause,
                                    !.inner = r.inner, !.data = r.data,
                                    !.etag = r.etag]
           /\ faulted' = (faulted \/ fault # "none" \/ getFault # "none")
    /\ UNCHANGED <<buckets, handler, checker, locks>>

\* get_object_handler's answer: 200 with the bytes, 404 for
\* S3Error::ObjectNotFound and S3Error::BucketNotFound, 500 for any other
\* error.
get_object_status(kind) ==
    CASE kind = "Ok" -> 200
      [] kind \in {"ObjectNotFound", "BucketNotFound"} -> 404
      [] OTHER -> 500

GetObject(bucket_name, key, fault) ==
    \E r \in {S3Service_get_object(buckets, St, bucket_name, key, fault)} :
        /\ last' = [Blank EXCEPT !.op = "get_object", !.bucket = bucket_name,
                                 !.key = key, !.kind = r.kind, !.cause = r.cause,
                                 !.data = r.data, !.etag = r.etag,
                                 !.status = get_object_status(r.kind)]
        /\ faulted' = (faulted \/ fault # "none")
        /\ UNCHANGED <<buckets, db_buckets, db_objects, fs, handler, checker, locks>>

DeleteObject(bucket_name, key, fault) ==
    \E r \in {S3Service_delete_object(buckets, St, bucket_name, key, fault)} :
        /\ db_buckets' = r.st.buckets
        /\ db_objects' = r.st.objects
        /\ fs' = r.st.fs
        /\ last' = [Blank EXCEPT !.op = "delete_object", !.bucket = bucket_name,
                                 !.key = key, !.kind = r.kind, !.inner = r.inner,
                                 !.removed = r.removed]
        /\ faulted' = (faulted \/ fault # "none")
        /\ UNCHANGED <<buckets, handler, checker, locks>>

ListObjects(bucket_name) ==
    LET r == S3Service_list_objects(buckets, St, bucket_name)
    IN  /\ last' = [Blank EXCEPT !.op = "list_objects", !.bucket = bucket_name,
                                 !.kind = r.kind, !.names = r.names]
        /\ UNCHANGED <<buckets, db_buckets, db_objects, fs, faulted, handler, checker, locks>>

\* background.rs, ConsistencyChecker::run_check: one scan under the storage lock.
CheckConsistency(fault, at) ==
    /\ IF fault = "read" THEN at \in 1..Len(db_objects) ELSE at = 0
    /\ \E r \in {Storage_check_consistency(St, fault, at)} :
           /\ last' = [Blank EXCEPT !.op = "check_consistency", !.bucket = r.bucket,
                                    !.key = r.key, !.kind = r.kind]
           /\ db_buckets' = r.st.buckets
           /\ db_objects' = r.st.objects
           /\ fs' = r.st.fs
           /\ faulted' = (faulted \/ fault # "none")
    /\ UNCHANGED <<buckets, handler, checker, locks>>

\* The environment: the bytes of an existing blob file are changed without
\* going through the engine.
Corrupt(bucket_name, key, data) ==
    /\ FilePath(bucket_name, key) \in DOMAIN fs
    /\ fs[FilePath(bucket_name, key)] # data
    /\ fs' = [fs EXCEPT ![FilePath(bucket_name, key)] = data]
    /\ last' = [Blank EXCEPT !.op = "corrupt", !.bucket = bucket_name, !.key = key]
    /\ faulted' = TRUE
    /\ UNCHANGED <<buckets, db_buckets, db_objects, handler, checker, locks>>

\* A call on a bucket the engine does not hold never reaches the storage
\* layer, so no statement of it can fail.
FaultsFor(bucket_name, faults) ==
    IF bucket_name \in buckets THEN faults ELSE {"none"}

\* handlers.rs: each handler locks the S3Service, makes one engine call with
\* the bucket, key and body of the request, and answers from its result.
create_bucket_handler == \E name \in BucketNames : CreateBucket(name)

delete_bucket_handler == \E name \in BucketNames : DeleteBucket(name)

list_buckets_handler == ListBuckets

put_object_handler ==
    \E b \in BucketNames, k \in ObjectKeys, d \in Data :
       \E f \in FaultsFor(b, PutFaults), g \in FaultsFor(b, GetFaults) :
          \E n \in (IF f = "write" THEN 0..(Len(d) - 1) ELSE {0}) :
             PutObject(b, k, d, f, n, g)

get_object_handler ==
    \E b \in BucketNames, k \in ObjectKeys :
       \E f \in FaultsFor(b, GetFaults) : GetObject(b, k, f)

delete_object_handler ==
    \E b \in BucketNames, k \in ObjectKeys :
       \E f \in FaultsFor(b, DeleteFaults) : DeleteObject(b, k, f)

list_objects_handler == \E b \in BucketNames : ListObjects(b)

\* background.rs, ConsistencyChecker::start: one tick of the interval
run_check ==
    \E f \in CheckFaults :
       \E i \in (IF f = "read" THEN 1..Len(db_objects) ELSE {0}) :
          CheckConsistency(f, i)

ExternalChange ==
    \E b \in BucketNames, k \in ObjectKeys, d \in Data : Corrupt(b, k, d)

Next ==
    \/ create_bucket_handler
    \/ delete_bucket_handler
    \/ list_buckets_handler
    \/ put_object_handler
    \/ get_object_handler
    \/ delete_object_handler
    \/ list_objects_handler
    \/ run_check
    \/ ExternalChange

Spec == Init /\ [][Next]_vars

\* The catalog used directly, as the public API of Storage allows: a call of
\* Storage::create_bucket, which no engine path makes.
CatalogCreateBucket(name, fault) ==
    \E r \in {Storage_create_bucket(St, name, fault)} :
        /\ db_buckets' = r.st.buckets
        /\ last' = [Blank EXCEPT !.op = "storage_create_bucket", !.bucket = name,
                                 !.inner = r.kind]
        /\ faulted' = (faulted \/ fault # "none")
        /\ UNCHANGED <<buckets, db_objects, fs, handler, checker, locks>>

\* A direct call of Storage::_delete_bucket, which no engine path makes either.
CatalogDeleteBucket(name, fault, cascade) ==
    \E r \in {Storage_delete_bucket(St, name, fault, cascade)} :
        /\ db_buckets' = r.st.buckets
        /\ db_objects' = r.st.objects
        /\ last' = [Blank EXCEPT !.op = "storage_delete_bucket", !.bucket = name,
                                 !.inner = r.kind]
        /\ faulted' = (faulted \/ fault # "none")
        /\ UNCHANGED <<buckets, fs, handler, checker, locks>>

CatalogNext ==
    \/ Next
    \/ \E name \in BucketNames, f \in CreateFaults : CatalogCreateBucket(name, f)
    \/ \E name \in BucketNames, f \in DeleteBucketFaults, cascade \in BOOLEAN :
          CatalogDeleteBucket(name, f, cascade)

CatalogSpec == Init /\ [][CatalogNext]_vars

\* The storage layer on its own: the public operations of Storage called
\* directly, each at any of its failure points.
\* last.names keeps the bucket row of the name that was there when the call
\* was made, empty when there was none.
StoragePutObject(bucket, key, data, fault, written) ==
    /\ IF fault = "write" THEN written < Len(data) ELSE written = 0
    /\ \E r \in {Storage_put_object(St, bucket, [key |-> key, data |-> data],
                                    fault, written)} :
           /\ db_buckets' = r.st.buckets
           /\ db_objects' = r.st.objects
           /\ fs' = r.st.fs
           /\ last' = [Blank EXCEPT !.op = "storage_put_object", !.bucket = bucket,
                                    !.key = key, !.bytes = Some(data),
                                    !.inner = r.kind,
                                    !.names = IF Storage_bucket_exists(St, bucket)
                                              THEN <<bucket>> ELSE <<>>]
           /\ faulted' = (faulted \/ fault # "none")
    /\ UNCHANGED <<buckets, handler, checker, locks>>

\* last.data keeps the blob that was at the object's location when the call
\* was made, None when there was no file.
StorageDeleteObject(bucket, key, fault) ==
    \E r \in {Storage_delete_object(St, bucket, key, fault)} :
        /\ db_buckets' = r.st.buckets
        /\ db_objects' = r.st.objects
        /\ fs' = r.st.fs
        /\ last' = [Blank EXCEPT !.op = "storage_delete_object", !.bucket = bucket,
                                 !.key = key, !.inner = r.kind,
                                 !.removed = r.removed,
                                 !.data = IF FilePath(bucket, key) \in DOMAIN fs
                                          THEN Some(fs[FilePath(bucket, key)])
                                          ELSE None]
        /\ faulted' = (faulted \/ fault # "none")
        /\ UNCHANGED <<buckets, handler, checker, locks>>

StorageNext ==
    \/ \E name \in BucketNames, f \in CreateFaults : CatalogCreateBucket(name, f)
    \/ \E name \in BucketNames, f \in DeleteBucketFaults, cascade \in BOOLEAN :
          CatalogDeleteBucket(name, f, cascade)
    \/ \E b \in BucketNames, k \in ObjectKeys, d \in Data, f \in PutFaults,
          n \in 0..MaxLen : StoragePutObject(b, k, d, f, n)
    \/ \E b \in BucketNames, k \in ObjectKeys, f \in DeleteFaults :
          StorageDeleteObject(b, k, f)

StorageSpec == Init /\ [][StorageNext]_vars

-----------------------------------------------------------------------------
(* The handlers and the checker as concurrent threads.  A put is taken       *)
(* statement by statement, and so is a scan.  The handler's buckets lock an  *)
(* Arc<std::sync::Mutex<Storage>> (bucket.rs); ConsistencyChecker holds an   *)
(* Arc<tokio::sync::Mutex<Storage>> (background.rs).  A Storage value lives  *)
(* inside one mutex, so the checker's Storage is a second handle, opened on  *)
(* the same catalog file and the same data directory, behind its own lock.   *)
(* The catalog is in WAL mode: a reader sees the rows committed when its     *)
(* SELECT started and is not blocked by a writer.  db_objects and db_buckets *)
(* are the committed rows; the rows of an open transaction are in no         *)
(* variable until the commit.  No failure is injected here.                  *)

EngineFree == handler.pc = "idle" /\ locks.service = "free"

\* The other engine calls, each under the S3Service lock from start to end.
conc_create_bucket == EngineFree /\ create_bucket_handler

conc_get_object ==
    /\ EngineFree
    /\ \E b \in BucketNames, k \in ObjectKeys : GetObject(b, k, "none")

conc_delete_object ==
    /\ EngineFree
    /\ \E b \in BucketNames, k \in ObjectKeys : DeleteObject(b, k, "none")

\* put_object_handler: s3_service.lock(); S3Service::put_object finds the
\* bucket; Bucket::put_object locks the storage; Storage::put_object opens
\* its transaction.
put_begin(bucket_name, key, data) ==
    /\ EngineFree
    /\ locks.storage = "free"
    /\ bucket_name \in buckets
    /\ handler' = [pc |-> "put_write", bucket |-> bucket_name, key |-> key,
                   data |-> data]
    /\ locks' = [locks EXCEPT !.service = "handler", !.storage = "handler"]
    /\ UNCHANGED <<buckets, db_buckets, db_objects, fs, last, faulted, checker>>

\* fs::create_dir_all, fs::write(&file_path, &object.data)
put_write ==
    /\ handler.pc = "put_write"
    /\ fs' = WriteFile(fs, FilePath(handler.bucket, handler.key), handler.data)
    /\ handler' = [handler EXCEPT !.pc = "put_commit"]
    /\ UNCHANGED <<buckets, db_buckets, db_objects, last, faulted, checker, locks>>

\* INSERT OR REPLACE INTO objects, tx.commit(); Bucket::put_object returns
\* and drops the storage guard.
put_commit ==
    /\ handler.pc = "put_commit"
    /\ \E r \in {Storage_put_object(St, handler.bucket,
                                    [key |-> handler.key, data |-> handler.data],
                                    "none", 0)} :
           /\ db_buckets' = r.st.buckets
           /\ db_objects' = r.st.objects
    /\ handler' = [handler EXCEPT !.pc = "put_reread"]
    /\ locks' = [locks EXCEPT !.storage = "free"]
    /\ UNCHANGED <<buckets, fs, last, faulted, checker>>

\* bucket.get_object(&object.key) locks the storage again, reads the object
\* and unlocks; the handler answers and drops the S3Service guard.
put_reread ==
    /\ handler.pc = "put_reread"
    /\ locks.storage = "free"
    /\ \E g \in {Bucket_get_object(St, handler.bucket, handler.key, "none")} :
           last' = [Blank EXCEPT !.op = "put_object", !.bucket = handler.bucket,
                                 !.key = handler.key, !.bytes = Some(handler.data),
                                 !.kind = IF g.kind = "Ok" THEN "Ok" ELSE "BucketError",
                                 !.cause = g.cause, !.inner = "Ok",
                                 !.data = g.data, !.etag = g.etag]
    /\ handler' = HandlerIdle
    /\ locks' = [locks EXCEPT !.service = "free"]
    /\ UNCHANGED <<buckets, db_buckets, db_objects, fs, faulted, checker>>

\* Faulty variant: the loop of the task goes on ticking after the task was
\* cancelled.
scan_begin_AfterCancel ==
    /\ checker.pc \in {"idle", "cancelled"}
    /\ locks.checker_storage = "free"
    /\ checker' = [checker EXCEPT !.pc = "scanning", !.rows = db_objects,
                                  !.i = 1, !.seen = None]
    /\ locks' = [locks EXCEPT !.checker_storage = "checker"]
    /\ UNCHANGED <<buckets, db_buckets, db_objects, fs, last, faulted, handler>>

\* run_check: self.storage.lock().await; check_consistency: transaction,
\* prepare, query: the result set is fixed.
scan_begin ==
    /\ checker.pc = "idle"
    /\ locks.checker_storage = "free"
    /\ checker' = [checker EXCEPT !.pc = "scanning", !.rows = db_objects,
                                  !.i = 1, !.seen = None]
    /\ locks' = [locks EXCEPT !.checker_storage = "checker"]
    /\ UNCHANGED <<buckets, db_buckets, db_objects, fs, last, faulted, handler>>

\* Faulty variant: a scan that ends with an error returns without dropping
\* the guard of the storage lock.
ScanReturns_KeepsLockOnError(r, seen) ==
    /\ checker' = [CheckerIdle EXCEPT !.seen = seen, !.aborted = checker.aborted]
    /\ locks' = IF r.kind = "Ok"
                THEN [locks EXCEPT !.checker_storage = "free"]
                ELSE locks
    /\ last' = [Blank EXCEPT !.op = "check_consistency", !.bucket = r.bucket,
                             !.key = r.key, !.kind = r.kind]

\* The scan returns: the guard is dropped and start logs the outcome.
ScanReturns(r, seen) ==
    /\ checker' = [CheckerIdle EXCEPT !.seen = seen, !.aborted = checker.aborted]
    /\ locks' = [locks EXCEPT !.checker_storage = "free"]
    /\ last' = [Blank EXCEPT !.op = "check_consistency", !.bucket = r.bucket,
                             !.key = r.key, !.kind = r.kind]

\* One turn of the while loop of check_consistency: the file of the next row
\* is looked up, read and hashed.
scan_row ==
    /\ checker.pc = "scanning"
    /\ checker.i <= Len(checker.rows)
    /\ LET row == checker.rows[checker.i]
           seen == IF row.file_path \in DOMAIN fs
                   THEN Some([bucket |-> row.bucket_name, key |-> row.key,
                              etag |-> row.etag, data |-> fs[row.file_path]])
                   ELSE checker.seen
       IN  \E r \in {Scan(St, <<row>>, 1, 0)} :
              IF r.kind = "Ok"
              THEN /\ checker' = [checker EXCEPT !.i = checker.i + 1, !.seen = seen]
                   /\ UNCHANGED <<last, locks>>
              ELSE ScanReturns(r, seen)
    /\ UNCHANGED <<buckets, db_buckets, db_objects, fs, faulted, handler>>

\* rows.next() yields None: Ok(()).
scan_end ==
    /\ checker.pc = "scanning"
    /\ checker.i > Len(checker.rows)
    /\ ScanReturns([kind |-> "Ok", bucket |-> "-", key |-> "-"], checker.seen)
    /\ UNCHANGED <<buckets, db_buckets, db_objects, fs, faulted, handler>>

ConcNext ==
    \/ conc_create_bucket
    \/ conc_get_object
    \/ conc_delete_object
    \/ \E b \in BucketNames, k \in ObjectKeys, d \in Data : put_begin(b, k, d)
    \/ put_write
    \/ put_commit
    \/ put_reread
    \/ scan_begin
    \/ scan_row
    \/ scan_end

ConcSpec == Init /\ [][ConcNext]_vars

-----------------------------------------------------------------------------
(* The engine called with names that hold a "/".  No failure is injected.    *)

slash_create_bucket == \E name \in SlashBucketNames : CreateBucket(name)

\* create_dir_all makes the directory of the bucket only, so the file of a
\* key with a "/" can be written only where an earlier put into the bucket of
\* that name has made the directory: data/buckets/b1/b2 is there once bucket
\* "b1/b2" has a row.  Elsewhere the put fails with an I/O error before
\* anything is written.
slash_put_object ==
    \E b \in SlashBucketNames, k \in SlashObjectKeys, d \in Data :
       LET dir_exists == \/ k = "k1"
                         \/ (b = "b1" /\ "b1/b2" \in db_buckets)
       IN  PutObject(b, k, d, IF dir_exists THEN "none" ELSE "create", 0, "none")

slash_get_object ==
    \E b \in SlashBucketNames, k \in SlashObjectKeys : GetObject(b, k, "none")

slash_delete_object ==
    \E b \in SlashBucketNames, k \in SlashObjectKeys : DeleteObject(b, k, "none")

SlashNext ==
    \/ slash_create_bucket
    \/ slash_put_object
    \/ slash_get_object
    \/ slash_delete_object

SlashSpec == Init /\ [][SlashNext]_vars

-----------------------------------------------------------------------------
(* Objects with a content type and user metadata.  put_object_handler takes *)
(* the content type from the Content-Type header (None without one) and the *)
(* map from the x-user-meta- headers; a caller of the library may also pass *)
(* no map at all.                                                            *)

ContentTypes == {None, Some("text/plain")}
UserMetadatas == {None, Some(<<>>), Some("a" :> "1"), Some("b" :> "2")}
MetaPutFaults == {"none", "commit"}
MetaBucketNames == {"b1"}

\* last.content_type and last.user_metadata keep what the caller gave.
MetaPutObject(bucket_name, key, data, content_type, user_metadata, fault) ==
    /\ \E r \in {S3Service_put_object(buckets, St, bucket_name,
                                      [key |-> key, data |-> data,
                                       content_type |-> content_type,
                                       user_metadata |-> user_metadata],
                                      fault, 0, "none")} :
           /\ db_buckets' = r.st.buckets
           /\ db_objects' = r.st.objects
           /\ fs' = r.st.fs
           /\ last' = [Blank EXCEPT !.op = "put_object", !.bucket = bucket_name,
                                    !.key = key, !.bytes = Some(data),
                                    !.kind = r.kind, !.cause = r.cause,
                                    !.inner = r.inner,
                                    !.data = r.data, !.etag = r.etag,
                                    !.content_type = content_type,
                                    !.user_metadata = user_metadata]
           /\ faulted' = (faulted \/ fault # "none")
    /\ UNCHANGED <<buckets, handler, checker, locks>>

\* last.content_type and last.user_metadata keep what the engine returned.
MetaGetObject(bucket_name, key) ==
    \E r \in {S3Service_get_object(buckets, St, bucket_name, key, "none")} :
        /\ last' = [Blank EXCEPT !.op = "get_object", !.bucket = bucket_name,
                                 !.key = key, !.kind = r.kind, !.cause = r.cause,
                                 !.data = r.data, !.etag = r.etag,
                                 !.content_type = r.content_type,
                                 !.user_metadata = r.user_metadata]
        /\ UNCHANGED <<buckets, db_buckets, db_objects, fs, faulted, handler,
                       checker, locks>>

meta_put_object ==
    \E b \in MetaBucketNames, k \in ObjectKeys, d \in Data :
       \E c \in ContentTypes, m \in UserMetadatas, f \in FaultsFor(b, MetaPutFaults) :
          MetaPutObject(b, k, d, c, m, f)

meta_get_object == \E b \in MetaBucketNames, k \in ObjectKeys : MetaGetObject(b, k)

meta_create_bucket == \E name \in MetaBucketNames : CreateBucket(name)

MetaNext ==
    \/ meta_create_bucket
    \/ meta_put_object
    \/ meta_get_object

MetaSpec == Init /\ [][MetaNext]_vars

-----------------------------------------------------------------------------
(* The locks.  Several requests are served at once, each by its own handler  *)
(* call: handler maps each to where it stands.  A handler locks the          *)
(* S3Service (std::sync::Mutex) and keeps the guard to its end; inside, each *)
(* Bucket method locks the Storage (std::sync::Mutex) for one storage call   *)
(* and drops the guard when it returns, so putObject takes the storage lock  *)
(* twice, for the write and for the re-read.  The checker locks its own      *)
(* tokio Mutex<Storage> for one scan.  No storage call fails here.           *)

HandlerThreads == {"h1", "h2"}
LockBucketNames == {"b1"}
LockData == {<<>>}

\* wrote: this call's storage write succeeded; got: what its get_object
\* returned.
ThreadIdle == [pc |-> "idle", op |-> "-", bucket |-> "-", key |-> "-", data |-> <<>>,
               wrote |-> FALSE, got |-> None]

LockInit ==
    /\ buckets = {}
    /\ db_buckets = {}
    /\ db_objects = <<>>
    /\ fs = <<>>
    /\ last = Blank
    /\ faulted = FALSE
    /\ handler = [t \in HandlerThreads |-> ThreadIdle]
    /\ checker = CheckerIdle
    /\ locks = LocksFree

\* A request arrives and its handler is called.
thread_start(t) ==
    /\ handler[t].pc = "idle"
    /\ \E op \in {"create_bucket", "put_object", "get_object", "delete_object"},
          b \in LockBucketNames, k \in ObjectKeys, d \in LockData :
          handler' = [handler EXCEPT ![t] = [ThreadIdle EXCEPT
                                                !.pc = "lock_service", !.op = op,
                                                !.bucket = b, !.key = k, !.data = d]]
    /\ UNCHANGED <<buckets, db_buckets, db_objects, fs, last, faulted, checker, locks>>

\* Faulty variant: the handler goes on without waiting for the S3Service lock.
thread_lock_service_NoGuard(t) ==
    /\ handler[t].pc = "lock_service"
    /\ locks' = [locks EXCEPT !.service = t]
    /\ IF handler[t].op = "create_bucket"
       THEN /\ buckets' = S3Service_create_bucket(buckets, handler[t].bucket).buckets
            /\ handler' = [handler EXCEPT ![t].pc = "unlock_service"]
       ELSE /\ buckets' = buckets
            /\ handler' = [handler EXCEPT ![t].pc =
                               IF handler[t].bucket \in buckets
                               THEN "lock_storage" ELSE "unlock_service"]
    /\ UNCHANGED <<db_buckets, db_objects, fs, last, faulted, checker>>

\* s3_service.lock().unwrap(), then the engine looks the bucket up in its map:
\* create_bucket inserts it, the object calls go on to the Bucket if it is
\* there and return BucketNotFound otherwise.
thread_lock_service(t) ==
    /\ handler[t].pc = "lock_service"
    /\ locks.service = "free"
    /\ locks' = [locks EXCEPT !.service = t]
    /\ IF handler[t].op = "create_bucket"
       THEN /\ buckets' = S3Service_create_bucket(buckets, handler[t].bucket).buckets
            /\ handler' = [handler EXCEPT ![t].pc = "unlock_service"]
       ELSE /\ buckets' = buckets
            /\ handler' = [handler EXCEPT ![t].pc =
                               IF handler[t].bucket \in buckets
                               THEN "lock_storage" ELSE "unlock_service"]
    /\ UNCHANGED <<db_buckets, db_objects, fs, last, faulted, checker>>

\* self.storage.lock() in a Bucket method
thread_lock_storage(t) ==
    /\ handler[t].pc \in {"lock_storage", "lock_storage_reread"}
    /\ locks.storage = "free"
    /\ locks' = [locks EXCEPT !.storage = t]
    /\ handler' = [handler EXCEPT ![t].pc =
                       IF handler[t].pc = "lock_storage" THEN "in_storage"
                       ELSE "in_storage_reread"]
    /\ UNCHANGED <<buckets, db_buckets, db_objects, fs, last, faulted, checker>>

\* The storage call the Bucket method makes after a put's write.
StorageCallOf(h, st) ==
    CASE h.pc = "in_storage" /\ h.op = "put_object" ->
            Storage_put_object(st, h.bucket, [key |-> h.key, data |-> h.data],
                               "none", 0).st
      [] h.pc = "in_storage" /\ h.op = "delete_object" ->
            Storage_delete_object(st, h.bucket, h.key, "none").st
      [] OTHER -> st

\* Faulty variant: Bucket::put_object returns with the storage guard alive.
thread_storage_call_KeepsGuard(t) ==
    /\ handler[t].pc \in {"in_storage", "in_storage_reread"}
    /\ locks.storage = t
    /\ \E st \in {StorageCallOf(handler[t], St)} :
          /\ db_buckets' = st.buckets
          /\ db_objects' = st.objects
          /\ fs' = st.fs
    /\ locks' = IF handler[t].pc = "in_storage" /\ handler[t].op = "put_object"
                THEN locks
                ELSE [locks EXCEPT !.storage = "free"]
    /\ handler' = [handler EXCEPT ![t].pc =
                       IF handler[t].pc = "in_storage" /\ handler[t].op = "put_object"
                       THEN "lock_storage_reread" ELSE "unlock_service"]
    /\ UNCHANGED <<buckets, last, faulted, checker>>

\* What the Bucket method's get_object returns to the engine: the re-read of
\* a put, or the read of a get.
StorageReadOf(h, st) ==
    IF h.pc = "in_storage_reread" \/ h.op = "get_object"
    THEN LET r == Storage_get_object(st, h.bucket, h.key, "none")
         IN  Some([kind |-> r.kind, data |-> r.data])
    ELSE None

\* The storage call runs and the Bucket method returns, dropping the storage
\* guard; S3Service::put_object goes on to bucket.get_object.
thread_storage_call(t) ==
    /\ handler[t].pc \in {"in_storage", "in_storage_reread"}
    /\ locks.storage = t
    /\ \E st \in {StorageCallOf(handler[t], St)} :
          /\ db_buckets' = st.buckets
          /\ db_objects' = st.objects
          /\ fs' = st.fs
    /\ locks' = [locks EXCEPT !.storage = "free"]
    /\ handler' = [handler EXCEPT
                      ![t].pc = IF handler[t].pc = "in_storage"
                                   /\ handler[t].op = "put_object"
                                THEN "lock_storage_reread" ELSE "unlock_service",
                      ![t].wrote = IF handler[t].pc = "in_storage"
                                      /\ handler[t].op = "put_object"
                                   THEN TRUE ELSE @,
                      ![t].got = StorageReadOf(handler[t], St)]
    /\ UNCHANGED <<buckets, last, faulted, checker>>

\* The handler answers and returns: the S3Service guard is dropped.
thread_unlock_service(t) ==
    /\ handler[t].pc = "unlock_service"
    /\ locks.service = t
    /\ locks' = [locks EXCEPT !.service = "free"]
    /\ handler' = [handler EXCEPT ![t] = ThreadIdle]
    /\ UNCHANGED <<buckets, db_buckets, db_objects, fs, last, faulted, checker>>

\* The steps of the threads that have started.
LockProgress ==
    \/ \E t \in HandlerThreads : thread_lock_service(t)
    \/ \E t \in HandlerThreads : thread_lock_storage(t)
    \/ \E t \in HandlerThreads : thread_storage_call(t)
    \/ \E t \in HandlerThreads : thread_unlock_service(t)
    \/ scan_row
    \/ scan_end

LockNext ==
    \/ \E t \in HandlerThreads : thread_start(t)
    \/ scan_begin
    \/ LockProgress

\* Every step of a started thread is taken if it stays possible.  A thread
\* waiting for a std::sync::Mutex is woken whenever the lock is released; it
\* is taken that a waiter woken again and again gets the lock in the end.
LockSpec ==
    /\ LockInit
    /\ [][LockNext]_vars
    /\ \A t \in HandlerThreads :
          /\ SF_vars(thread_lock_service(t))
          /\ SF_vars(thread_lock_storage(t))
          /\ WF_vars(thread_storage_call(t))
          /\ WF_vars(thread_unlock_service(t))
    /\ WF_vars(scan_row)
    /\ WF_vars(scan_end)

-----------------------------------------------------------------------------
(* Concurrent requests on one object.  The handler calls of the lock section *)
(* with any body, and with storage writes that fail: the engine discards the *)
(* write's result and re-reads all the same.                                 *)

\* A request arrives with any body.
race_start(t) ==
    /\ handler[t].pc = "idle"
    /\ \E op \in {"create_bucket", "put_object", "get_object", "delete_object"},
          b \in LockBucketNames, k \in ObjectKeys, d \in Data :
          handler' = [handler EXCEPT ![t] = [ThreadIdle EXCEPT
                                                !.pc = "lock_service", !.op = op,
                                                !.bucket = b, !.key = k, !.data = d]]
    /\ UNCHANGED <<buckets, db_buckets, db_objects, fs, last, faulted, checker, locks>>

\* The write of a put fails at one of its statements; Bucket::put_object
\* drops the storage guard and the result, and the engine goes on to the
\* re-read.
race_put_fails(t) ==
    /\ handler[t].pc = "in_storage"
    /\ handler[t].op = "put_object"
    /\ locks.storage = t
    /\ \E fault \in PutFaults \ {"none"}, written \in 0..Len(handler[t].data) :
          \E r \in {Storage_put_object(St, handler[t].bucket,
                                       [key |-> handler[t].key, data |-> handler[t].data],
                                       fault, written)} :
             /\ db_buckets' = r.st.buckets
             /\ db_objects' = r.st.objects
             /\ fs' = r.st.fs
    /\ locks' = [locks EXCEPT !.storage = "free"]
    /\ handler' = [handler EXCEPT ![t].pc = "lock_storage_reread"]
    /\ faulted' = TRUE
    /\ UNCHANGED <<buckets, last, checker>>

RaceNext ==
    \/ \E t \in HandlerThreads : race_start(t)
    \/ \E t \in HandlerThreads : thread_lock_service(t)
    \/ \E t \in HandlerThreads : thread_lock_storage(t)
    \/ \E t \in HandlerThreads : thread_storage_call(t)
    \/ \E t \in HandlerThreads : race_put_fails(t)
    \/ \E t \in HandlerThreads : thread_unlock_service(t)

RaceSpec == LockInit /\ [][RaceNext]_vars

-----------------------------------------------------------------------------
(* The process stops and is started again over the same catalog file and    *)
(* the same blob area.                                                       *)

\* S3Service::new: an engine with an empty map of buckets.
S3Service_new == {}

\* main: Storage::new opens the catalog that is there (CREATE TABLE IF NOT
\* EXISTS keeps its rows) and the data directory that is there;
\* S3Service::new builds the engine.  No thread of the old process is left.
Restart ==
    /\ buckets' = S3Service_new
    /\ handler' = HandlerIdle
    /\ checker' = CheckerIdle
    /\ locks' = LocksFree
    /\ last' = [Blank EXCEPT !.op = "restart"]
    /\ UNCHANGED <<db_buckets, db_objects, fs, faulted>>

RestartNext ==
    \/ create_bucket_handler
    \/ list_buckets_handler
    \/ put_object_handler
    \/ get_object_handler
    \/ delete_object_handler
    \/ Restart

RestartSpec == Init /\ [][RestartNext]_vars

-----------------------------------------------------------------------------
(* The life of the checker task.  start spawns a loop that awaits the next   *)
(* tick, awaits the storage lock, scans and logs the outcome.  The scan is   *)
(* synchronous code: JoinHandle::abort takes effect where the task awaits.   *)
(* A task aborted while it waits is dropped without being polled again.  A   *)
(* task aborted while it scans finishes the scan and is dropped where it     *)
(* next has to wait; a tick already due then lets one more scan start first. *)

\* handle.abort()
checker_abort ==
    /\ checker.pc \in {"idle", "scanning"}
    /\ ~checker.aborted
    /\ checker' = [checker EXCEPT !.aborted = TRUE,
                                  !.pc = IF checker.pc = "idle" THEN "cancelled" ELSE @]
    /\ UNCHANGED <<buckets, db_buckets, db_objects, fs, last, faulted, handler, locks>>

\* The aborted task reaches interval.tick().await with no tick due.
checker_cancel ==
    /\ checker.pc = "idle"
    /\ checker.aborted
    /\ checker' = [checker EXCEPT !.pc = "cancelled"]
    /\ UNCHANGED <<buckets, db_buckets, db_objects, fs, last, faulted, handler, locks>>

\* The engine beside the task: buckets are created and objects are put, each
\* call running to its end without a failure.
checker_put_object ==
    \E b \in BucketNames, k \in ObjectKeys, d \in Data :
       PutObject(b, k, d, "none", 0, "none")

CheckerNext ==
    \/ create_bucket_handler
    \/ checker_put_object
    \/ ExternalChange
    \/ scan_begin
    \/ scan_row
    \/ scan_end
    \/ checker_abort
    \/ checker_cancel

CheckerSpec == Init /\ [][CheckerNext]_vars

\* The timer of the runtime fires and the tokio mutex is fair, so a task that
\* is not cancelled gets its next tick and the lock; the scan is a loop over
\* a finite result set.
CheckerLiveSpec ==
    /\ Init
    /\ [][CheckerNext]_vars
    /\ WF_vars(scan_begin)
    /\ WF_vars(scan_row)
    /\ WF_vars(scan_end)

-----------------------------------------------------------------------------
(* Properties *)

HasRow(bucket, key) == Matching(db_objects, bucket, key) # <<>>
TheRow(bucket, key) == Head(Matching(db_objects, bucket, key))

\* The row's blob exists and hashes to the row's stored etag.
RowConsistent(row) ==
    /\ row.file_path \in DOMAIN fs
    /\ calculate_etag(fs[row.file_path]) = row.etag

AllRowsConsistent == \A i \in DOMAIN db_objects : RowConsistent(db_objects[i])

\* The elements of a sequence.
Range(s) == {s[i] : i \in DOMAIN s}

\* C1: round trip.  Whenever the engine's putObject(b, k, bytes) has returned
\* success, a getObject(b, k) issued next returns data equal to bytes and an
\* etag equal to the hash recomputed over the returned data.
C1_RoundTrip ==
    (last.op = "put_object" /\ last.kind = "Ok") =>
        LET g == S3Service_get_object(buckets, St, last.bucket, last.key, "none")
        IN  /\ g.kind = "Ok"
            /\ g.data = last.bytes
            /\ g.etag = Some(calculate_etag(g.data[1]))

\* C2: catalog/blob invariant.  As long as no call has hit an I/O or database
\* failure and no blob file was changed from outside, every object row has a
\* blob at its recorded location whose recomputed hash equals the stored
\* hash, and a consistency scan returns success.
C2_CatalogBlobInvariant ==
    ~faulted =>
        /\ AllRowsConsistent
        /\ Storage_check_consistency(St, "none", 0).kind = "Ok"

\* C2 witness: two objects are stored after calls that all completed without
\* failure, and a scan has just returned success.
C2_Witness ==
    /\ ~faulted
    /\ Len(db_objects) = 2
    /\ last.op = "check_consistency"
    /\ last.kind = "Ok"

\* C3: a putObject whose storage-layer write fails (blob write, row upsert or
\* commit), issued when every row agreed with its blob, leaves every visible
\* row with a blob whose recomputed hash equals the row's stored hash.
C3_FailedPutKeepsRowsConsistent ==
    [][(/\ AllRowsConsistent
        /\ last'.op = "put_object"
        /\ last'.inner \in FailureKinds) => AllRowsConsistent']_vars

\* C4: getObject never returns possibly corrupt bytes.  Whenever get_object
\* returns successfully, the hash of the returned data equals the hash stored
\* in the catalog row of (b, k); when the recomputed hash of the blob differs
\* from the stored hash, the call returns no data and, the row and the blob
\* having been read, fails with IntegrityError.  The same holds of the result
\* the engine's getObject has just handed to its caller.
C4_GetNeverReturnsCorruptBytes ==
    /\ \A b \in BucketNames, k \in ObjectKeys, f \in GetFaults :
          LET g == Storage_get_object(St, b, k, f)
          IN  /\ g.kind = "Ok" =>
                    /\ HasRow(b, k)
                    /\ calculate_etag(g.data[1]) = TheRow(b, k).etag
              /\ (/\ HasRow(b, k)
                  /\ TheRow(b, k).file_path \in DOMAIN fs
                  /\ calculate_etag(fs[TheRow(b, k).file_path]) # TheRow(b, k).etag) =>
                    /\ g.data = None
                    /\ f = "none" => g.kind = "IntegrityError"
    /\ (last.op = "get_object" /\ last.kind = "Ok") =>
          /\ HasRow(last.bucket, last.key)
          /\ calculate_etag(last.data[1]) = TheRow(last.bucket, last.key).etag
    /\ (last.op = "get_object" /\ last.cause = "IntegrityError") =>
          /\ last.kind # "Ok"
          /\ last.data = None

\* C4 witness: a getObject on an object whose blob no longer hashes to the
\* stored etag has just failed with IntegrityError.
C4_Witness ==
    /\ last.op = "get_object"
    /\ last.cause = "IntegrityError"
    /\ HasRow(last.bucket, last.key)
    /\ ~RowConsistent(TheRow(last.bucket, last.key))

\* C5: corruption is detected on both paths.  For every object row whose blob
\* holds bytes that do not hash to the stored etag, get_object fails with
\* IntegrityError (through the engine: a BucketError rendered from it), and a
\* consistency scan fails with ConsistencyError; the error names this row's
\* bucket and key when no row before it in scan order is in violation, in
\* particular when it is the only blob that was changed.
C5_CorruptionDetected ==
    \A i \in DOMAIN db_objects :
       LET row == db_objects[i]
           scan == Storage_check_consistency(St, "none", 0)
           got == S3Service_get_object(buckets, St, row.bucket_name, row.key, "none")
       IN  (/\ row.file_path \in DOMAIN fs
            /\ calculate_etag(fs[row.file_path]) # row.etag) =>
              /\ Storage_get_object(St, row.bucket_name, row.key, "none").kind
                     = "IntegrityError"
              /\ row.bucket_name \in buckets =>
                     (got.kind = "BucketError" /\ got.cause = "IntegrityError")
              /\ scan.kind = "ConsistencyError"
              /\ (\A j \in 1..(i - 1) : RowConsistent(db_objects[j])) =>
                     (scan.bucket = row.bucket_name /\ scan.key = row.key)

\* C5 witness: the blob of the second row in scan order has just been changed
\* from outside, the first row being intact.
C5_Witness ==
    /\ last.op = "corrupt"
    /\ Len(db_objects) = 2
    /\ RowConsistent(db_objects[1])
    /\ db_objects[2].bucket_name = last.bucket
    /\ db_objects[2].key = last.key
    /\ ~RowConsistent(db_objects[2])

\* C6: createBucket(b) on a name the engine does not hold succeeds and
\* afterwards bucketExists(b) is true; createBucket(b) on a name it holds
\* fails with BucketAlreadyExists and leaves the buckets unchanged.
C6_CreateBucketThenExists ==
    [][\A b \in BucketNames :
          (last'.op = "create_bucket" /\ last'.bucket = b) =>
             IF b \notin buckets
             THEN /\ last'.kind = "Ok"
                  /\ Storage_bucket_exists(St, b)'
             ELSE /\ last'.kind = "BucketAlreadyExists"
                  /\ UNCHANGED <<buckets, db_buckets>>]_vars

\* listObjects(b) names no key twice.
ListedOnce ==
    \A b \in BucketNames :
       LET names == Storage_list_objects(St, b)
       IN  \A i, j \in DOMAIN names : i # j => names[i] # names[j]

\* C7: overwrite.  After a putObject(b, k, bytes2) that the engine reports as
\* successful on a key that already held an object, getObject(b, k) returns
\* bytes2 and listObjects(b) contains k exactly once; in every state
\* listObjects(b) contains no key twice.
C7_Overwrite ==
    /\ []ListedOnce
    /\ [][\A b \in BucketNames, k \in ObjectKeys :
            (/\ HasRow(b, k)
             /\ last'.op = "put_object"
             /\ last'.bucket = b
             /\ last'.key = k
             /\ last'.kind = "Ok") =>
               (/\ S3Service_get_object(buckets, St, b, k, "none").data = last.bytes
                /\ Cardinality({i \in DOMAIN S3Service_list_objects(buckets, St, b).names :
                       S3Service_list_objects(buckets, St, b).names[i] = k}) = 1)']_vars

C9_DeleteRemovesRowAndBlob ==
    (last.op = "delete_object" /\ last.kind = "Ok") =>
        LET got == S3Service_get_object(buckets, St, last.bucket, last.key, "none")
        IN  /\ ~HasRow(last.bucket, last.key)
            /\ last.key \notin Range(S3Service_list_objects(buckets, St, last.bucket).names)
            /\ got.kind = "BucketError"
            /\ got.cause = "ObjectNotFound"
            /\ got.data = None
            /\ FilePath(last.bucket, last.key) \notin DOMAIN fs

\* C9 witness: a deleteObject has just succeeded.
C9_Witness ==
    /\ last.op = "delete_object"
    /\ last.kind = "Ok"
    /\ last.removed = Some(TRUE)

\* C10: after a successful deleteBucket(b), b is not in listBuckets(); as long
\* as b is not in listBuckets() every getObject(b, k) reports BucketNotFound;
\* and b comes back only through a successful createBucket(b).
C10_DeletedBucketNotFound ==
    /\ [](/\ (last.op = "delete_bucket" /\ last.kind = "Ok") =>
                last.bucket \notin S3Service_list_buckets(buckets)
          /\ \A b \in BucketNames \ S3Service_list_buckets(buckets) :
                \A k \in ObjectKeys, f \in GetFaults :
                   S3Service_get_object(buckets, St, b, k, f).kind = "BucketNotFound")
    /\ [][\A b \in BucketNames :
            (b \notin S3Service_list_buckets(buckets)
                /\ b \in S3Service_list_buckets(buckets)') =>
               (last'.op = "create_bucket" /\ last'.bucket = b /\ last'.kind = "Ok")]_vars

\* C10 witness: a bucket that holds a stored object has just been deleted.
C10_Witness ==
    /\ last.op = "delete_bucket"
    /\ last.kind = "Ok"
    /\ \E k \in ObjectKeys :
          /\ HasRow(last.bucket, k)
          /\ RowConsistent(TheRow(last.bucket, k))

\* C11: deleteBucket(b) removes all objects of b.  After a successful
\* deleteBucket(b) no object row scoped to b is left in the catalog, and after
\* a successful createBucket(b) listObjects(b) is empty and getObject(b, k)
\* finds nothing for any key k.
C11_DeleteBucketRemovesObjects ==
    /\ (last.op = "delete_bucket" /\ last.kind = "Ok") =>
          \A i \in DOMAIN db_objects : db_objects[i].bucket_name # last.bucket
    /\ (last.op = "create_bucket" /\ last.kind = "Ok") =>
          /\ S3Service_list_objects(buckets, St, last.bucket).names = <<>>
          /\ \A k \in ObjectKeys :
                S3Service_get_object(buckets, St, last.bucket, k, "none").kind # "Ok"

\* C12: putObject(b, k, bytes) on a bucket b the engine does not hold fails
\* with BucketNotFound, returns no object and changes nothing: no bucket is
\* created, no catalog row is written and no blob is written.
C12_PutIntoMissingBucket ==
    [][\A b \in BucketNames :
          (last'.op = "put_object" /\ last'.bucket = b /\ b \notin buckets) =>
             /\ last'.kind = "BucketNotFound"
             /\ last'.data = None
             /\ UNCHANGED <<buckets, db_buckets, db_objects, fs>>]_vars

\* C12 witness: a putObject on a bucket that was never created has just
\* failed with BucketNotFound, the catalog holding no row for that bucket and
\* the blob area no file under it.
C12_Witness ==
    /\ last.op = "put_object"
    /\ last.kind = "BucketNotFound"
    /\ last.bucket \notin buckets
    /\ last.bucket \notin db_buckets
    /\ \A k \in ObjectKeys :
          ~HasRow(last.bucket, k) /\ FilePath(last.bucket, k) \notin DOMAIN fs

\* C13: put failures are propagated.  If a step of the storage layer's
\* put_object fails, the engine's putObject returns an error; it returns
\* success only when the blob and the catalog row of this very call were
\* both written.
C13_PutFailuresPropagated ==
    (last.op = "put_object" /\ last.kind = "Ok") =>
        /\ last.inner = "Ok"
        /\ HasRow(last.bucket, last.key)
        /\ TheRow(last.bucket, last.key).etag = calculate_etag(last.bytes[1])
        /\ FilePath(last.bucket, last.key) \in DOMAIN fs
        /\ fs[FilePath(last.bucket, last.key)] = last.bytes[1]

\* C14: no row referencing unwritten bytes is ever committed.  Every step that
\* creates the catalog row of (b, k) or changes it is a putObject(b, k, bytes)
\* whose blob write completed: the blob at the row's location holds exactly
\* the bytes of the call and hashes to the row's etag.  A putObject whose
\* storage-layer write failed commits nothing: the object rows and the bucket
\* rows are those of before.
C14_NoRowBeforeBlob ==
    [][/\ \A b \in BucketNames, k \in ObjectKeys :
            (/\ HasRow(b, k)'
             /\ ~HasRow(b, k) \/ TheRow(b, k)' # TheRow(b, k)) =>
               /\ last'.op = "put_object"
               /\ last'.bucket = b
               /\ last'.key = k
               /\ last'.inner = "Ok"
               /\ TheRow(b, k)'.file_path \in DOMAIN fs'
               /\ fs'[TheRow(b, k)'.file_path] = last'.bytes[1]
               /\ calculate_etag(fs'[TheRow(b, k)'.file_path]) = TheRow(b, k)'.etag
       /\ (last'.op = "put_object" /\ last'.inner # "Ok") =>
               UNCHANGED <<db_buckets, db_objects>>]_vars

\* C14 witness: a putObject on a key that has no row has just failed while
\* writing the blob: a file is left at the blob location and no row
\* references it.
C14_Witness ==
    /\ last.op = "put_object"
    /\ last.inner = "IoError"
    /\ ~HasRow(last.bucket, last.key)
    /\ FilePath(last.bucket, last.key) \in DOMAIN fs
    /\ fs[FilePath(last.bucket, last.key)] # last.bytes[1]

\* C15: a putObject(b, k, bytes) that the engine reports as successful returns
\* the object as stored by this call: the returned data equals bytes and the
\* returned etag is the hash of bytes.
C15_PutReturnsStoredObject ==
    (last.op = "put_object" /\ last.kind = "Ok") =>
        /\ last.data = last.bytes
        /\ last.etag = Some(calculate_etag(last.bytes[1]))

\* The first row in scan order whose blob is missing or does not hash to the
\* stored etag (0 when there is none).
FirstViolation ==
    IF AllRowsConsistent THEN 0
    ELSE CHOOSE i \in DOMAIN db_objects :
            /\ ~RowConsistent(db_objects[i])
            /\ \A j \in 1..(i - 1) : RowConsistent(db_objects[j])

\* C18: a consistency scan returns success if and only if every object row
\* has an existing blob whose recomputed hash equals the stored hash;
\* otherwise it fails with a ConsistencyError naming the bucket and key of the
\* first violating row in scan order, whether the blob is missing or the hash
\* differs, and it examines no later row: a read failure placed on a later
\* row does not change the outcome.
C18_ScanOutcome ==
    LET scan == Storage_check_consistency(St, "none", 0)
        v == FirstViolation
    IN  /\ (scan.kind = "Ok") <=> AllRowsConsistent
        /\ ~AllRowsConsistent =>
             /\ scan.kind = "ConsistencyError"
             /\ scan.bucket = db_objects[v].bucket_name
             /\ scan.key = db_objects[v].key
             /\ \A at \in (v + 1)..Len(db_objects) :
                   Storage_check_consistency(St, "read", at) = scan
        /\ (last.op = "check_consistency" /\ last.kind = "Ok") => AllRowsConsistent
        /\ (last.op = "check_consistency" /\ ~AllRowsConsistent
               /\ last.kind \notin FailureKinds) =>
             /\ last.kind = "ConsistencyError"
             /\ last.bucket = db_objects[v].bucket_name
             /\ last.key = db_objects[v].key

\* C18 witness: a scan has just reported the first of two violating rows: the
\* blob of the first row is missing, the blob of the second does not hash to
\* its etag.
C18_Witness ==
    /\ last.op = "check_consistency"
    /\ last.kind = "ConsistencyError"
    /\ Len(db_objects) = 2
    /\ db_objects[1].file_path \notin DOMAIN fs
    /\ db_objects[2].file_path \in DOMAIN fs
    /\ ~RowConsistent(db_objects[2])
    /\ last.bucket = db_objects[1].bucket_name
    /\ last.key = db_objects[1].key

\* C19: a consistency scan is read-only.  Whether it succeeds, reports a
\* violation or is hit by a failure, the bucket rows, the object rows with
\* all their fields (and their order) and every blob are after the scan what
\* they were before it, and the engine's buckets too.
C19_ScanReadOnly ==
    [][last'.op = "check_consistency" =>
          UNCHANGED <<buckets, db_buckets, db_objects, fs>>]_vars

\* C19 witness: a scan has just reported a violation, and the violating row
\* and what is left of its blob are still there.
C19_Witness ==
    /\ last.op = "check_consistency"
    /\ last.kind = "ConsistencyError"
    /\ HasRow(last.bucket, last.key)
    /\ ~RowConsistent(TheRow(last.bucket, last.key))

\* C20: the error kind the caller of the engine's getObject receives for a
\* missing object (the engine holds the bucket, no row for the key) is
\* ObjectNotFound, the kind it receives for a corrupted object (the blob does
\* not hash to the stored etag) is IntegrityError, and the two kinds differ.
C20_NotFoundVsCorrupted ==
    \A b \in buckets, k \in ObjectKeys :
       LET got == S3Service_get_object(buckets, St, b, k, "none")
       IN  /\ ~HasRow(b, k) => got.kind = "ObjectNotFound"
           /\ (/\ HasRow(b, k)
               /\ TheRow(b, k).file_path \in DOMAIN fs
               /\ ~RowConsistent(TheRow(b, k))) => got.kind = "IntegrityError"

\* C16: mutual exclusion.  At no time is a consistency scan of the checker in
\* progress while a put, get or delete of the engine holds the storage: the
\* storage lock of the engine and the storage lock of the checker are never
\* held at the same time.
C16_MutualExclusion ==
    ~(locks.storage = "handler" /\ locks.checker_storage = "checker")

\* C17: what a scan reads for a row while a putObject overwrites the object
\* is the complete old object or the complete new one: the bytes it read
\* hash to the etag it read.  And a getObject never finds new bytes under the
\* old hash either.
C17_PutAtomicForObservers ==
    /\ checker.seen # None =>
          calculate_etag(checker.seen[1].data) = checker.seen[1].etag
    /\ last.op = "get_object" => last.cause # "IntegrityError"

\* C21: errors keep their kind through the engine.  When the storage layer's
\* delete_object fails with a database error, a failure to remove the blob
\* file or a failed commit, the engine's deleteObject does not report
\* ObjectNotFound to its caller.
C21_DeleteErrorsKeepKind ==
    (last.op = "delete_object" /\ last.inner \in FailureKinds) =>
        last.kind # "ObjectNotFound"

\* C22: for every mutating catalog operation that reaches its commit
\* (create_bucket of a name without a row, _delete_bucket of a name with a
\* row, put_object, delete_object of a key with a row), a failure of the
\* commit is reported as TransactionCommitError.
C22_CommitFailureKind ==
    \A b \in BucketNames, k \in ObjectKeys, d \in Data :
       /\ b \notin db_buckets =>
             Storage_create_bucket(St, b, "commit").kind = "TransactionCommitError"
       /\ b \in db_buckets =>
             \A cascade \in BOOLEAN :
                Storage_delete_bucket(St, b, "commit", cascade).kind
                    = "TransactionCommitError"
       /\ Storage_put_object(St, b, [key |-> k, data |-> d], "commit", 0).kind
              = "TransactionCommitError"
       /\ HasRow(b, k) =>
             Storage_delete_object(St, b, k, "commit").kind = "TransactionCommitError"

\* C23: every mutating catalog operation is all-or-nothing on the catalog.
\* If create_bucket, _delete_bucket, put_object or delete_object returns an
\* error, at whatever step, the bucket rows and the object rows are exactly
\* those of before the call; a failed put_object leaves no bucket row behind.
C23_AllOrNothing ==
    [][(/\ last'.op \in {"storage_create_bucket", "storage_delete_bucket",
                         "storage_put_object", "storage_delete_object"}
        /\ last'.inner # "Ok") =>
            UNCHANGED <<db_buckets, db_objects>>]_vars

\* C23 witness: a put_object into a bucket without a bucket row has just
\* failed after its blob write, and the bucket still has no row.
C23_Witness ==
    /\ last.op = "storage_put_object"
    /\ last.inner \in {"DatabaseError", "TransactionCommitError"}
    /\ last.bucket \notin db_buckets
    /\ FilePath(last.bucket, last.key) \in DOMAIN fs
    /\ fs[FilePath(last.bucket, last.key)] = last.bytes[1]

\* C24: the blob of an object is deleted only when its row deletion
\* succeeded.  If deleteObject(b, k) returns an error, the object is left
\* intact: the catalog rows and the blobs are those of before the call, so a
\* failed delete never leaves a row without its blob.
C24_FailedDeleteKeepsObject ==
    [][(last'.op = "delete_object" /\ last'.kind # "Ok") =>
            UNCHANGED <<db_objects, fs>>]_vars

\* C25: the consistency checker is an independent observer.  After a scan
\* that reported an error, every putObject, getObject and deleteObject of the
\* engine returns what it would have returned had the scan not run: same
\* outcome, same error, same bytes.
C25_ScanIndependentObserver ==
    [][(last'.op = "check_consistency" /\ last'.kind # "Ok") =>
          \A b \in BucketNames, k \in ObjectKeys :
             /\ S3Service_get_object(buckets', St', b, k, "none")
                   = S3Service_get_object(buckets, St, b, k, "none")
             /\ LET after  == S3Service_delete_object(buckets', St', b, k, "none")
                    before == S3Service_delete_object(buckets, St, b, k, "none")
                IN  /\ after.kind = before.kind
                    /\ after.inner = before.inner
                    /\ after.removed = before.removed
             /\ \A d \in Data :
                   LET after  == S3Service_put_object(buckets', St', b,
                                    [key |-> k, data |-> d], "none", 0, "none")
                       before == S3Service_put_object(buckets, St, b,
                                    [key |-> k, data |-> d], "none", 0, "none")
                   IN  /\ after.kind = before.kind
                       /\ after.cause = before.cause
                       /\ after.inner = before.inner
                       /\ after.data = before.data
                       /\ after.etag = before.etag]_vars

\* C25 witness: a scan has just reported a violation on an object of a bucket
\* the engine holds, and getObject of that object still fails as it did.
C25_Witness ==
    /\ last.op = "check_consistency"
    /\ last.kind = "ConsistencyError"
    /\ last.bucket \in buckets
    /\ S3Service_get_object(buckets, St, last.bucket, last.key, "none").kind = "BucketError"

\* C26: the periodic checker can be cancelled.  A task aborted while it waits
\* between ticks ends as cancelled at once; once the task is cancelled no
\* scan is started any more (the task does not move and no scan outcome is
\* logged), and the storage lock of the checker is free.
C26_CheckerCancelled ==
    /\ [][(checker.pc = "idle" /\ ~checker.aborted /\ checker'.aborted) =>
             checker'.pc = "cancelled"]_vars
    /\ [][checker.pc = "cancelled" =>
             /\ checker' = checker
             /\ locks'.checker_storage = "free"
             /\ (last' # last => last'.op # "check_consistency")]_vars
    /\ [](checker.pc = "cancelled" => locks.checker_storage = "free")

\* C26 witness: the task was cancelled after it had scanned a catalog with a
\* row in it, and the engine has served a call since.
C26_Witness ==
    /\ checker.pc = "cancelled"
    /\ checker.seen # None
    /\ Len(db_objects) > 0
    /\ last.op = "put_object"

\* C27: the checker is either idle or scanning (or cancelled); it holds the
\* storage lock exactly while it scans; every scan, clean or not, returns to
\* idle with the lock released; and after a scan that reported an error
\* another scan starts unless the task is cancelled.
C27_CheckerStateMachine ==
    /\ [](checker.pc \in {"idle", "scanning", "cancelled"})
    /\ []((checker.pc = "scanning") <=> (locks.checker_storage = "checker"))
    /\ [][checker.pc = "scanning" => checker'.pc \in {"scanning", "idle"}]_vars
    /\ (checker.pc = "scanning") ~>
           (checker.pc = "idle" /\ locks.checker_storage = "free")
    /\ (checker.pc = "idle" /\ last.op = "check_consistency" /\ last.kind # "Ok") ~>
           (checker.pc \in {"scanning", "cancelled"})

\* C27 witness: a scan is running after an earlier scan reported an error.
C27_Witness ==
    /\ checker.pc = "scanning"
    /\ last.op = "check_consistency"
    /\ last.kind = "ConsistencyError"

\* C28: listBuckets() of the engine is a pass-through to the catalog.  In
\* every reachable state the names it returns are the names that have a
\* bucket row, the names for which bucket_exists is true.
C28_ListBucketsIsCatalog ==
    S3Service_list_buckets(buckets) =
        {b \in BucketNames : Storage_bucket_exists(St, b)}

\* C29: durability across a restart.  Every bucket listBuckets() returned
\* before the process stopped is returned by listBuckets() of the engine
\* constructed again, and every getObject(b, k) that succeeded before returns
\* the same bytes after, without any bucket being created again.
C29_DurableAcrossRestart ==
    [][last'.op = "restart" =>
          /\ S3Service_list_buckets(buckets) \subseteq S3Service_list_buckets(buckets')
          /\ \A b \in BucketNames, k \in ObjectKeys :
                S3Service_get_object(buckets, St, b, k, "none").kind = "Ok" =>
                   S3Service_get_object(buckets', St', b, k, "none")
                      = S3Service_get_object(buckets, St, b, k, "none")]_vars

C31_DeleteMissingBucket ==
    [][/\ \A b \in BucketNames :
            (last'.op = "delete_bucket" /\ last'.bucket = b /\ b \notin buckets) =>
               /\ last'.kind = "BucketNotFound"
               /\ UNCHANGED <<buckets, db_buckets, db_objects, fs>>
       /\ \A b \in BucketNames \ db_buckets, cascade \in BOOLEAN :
            LET r == Storage_delete_bucket(St, b, "none", cascade)
            IN  r.kind = "BucketNotFoundInStorage" /\ r.st = St]_vars

\* C31 witness: deleteBucket has just failed with BucketNotFound while the
\* engine holds another bucket with a stored object.
C31_Witness ==
    /\ last.op = "delete_bucket"
    /\ last.kind = "BucketNotFound"
    /\ last.bucket \notin buckets
    /\ \E b \in buckets, k \in ObjectKeys : HasRow(b, k)

\* C32: delete_object tolerates a blob that is already missing.  When the
\* row of (b, k) exists and no file is at its recorded location, a
\* delete_object(b, k) that is not hit by a database failure removes the row
\* and returns true; the location is still empty afterwards.
C32_DeleteToleratesMissingBlob ==
    [][\A b \in BucketNames, k \in ObjectKeys :
          (HasRow(b, k) /\ TheRow(b, k).file_path \notin DOMAIN fs) =>
             /\ LET r == Storage_delete_object(St, b, k, "none")
                IN  /\ r.kind = "Ok"
                    /\ r.removed = Some(TRUE)
                    /\ Matching(r.st.objects, b, k) = <<>>
                    /\ r.st.fs = fs
             /\ (last'.op = "storage_delete_object" /\ last'.bucket = b
                    /\ last'.key = k) =>
                   \/ last'.inner \in {"DatabaseError", "TransactionCommitError"}
                   \/ /\ last'.inner = "Ok"
                      /\ last'.removed = Some(TRUE)
                      /\ ~HasRow(b, k)'
                      /\ fs' = fs]_vars

\* C32 witness: a delete_object has just removed the row of an object whose
\* blob was not there when the call was made.
C32_Witness ==
    /\ last.op = "storage_delete_object"
    /\ last.inner = "Ok"
    /\ last.removed = Some(TRUE)
    /\ last.data = None
    /\ ~HasRow(last.bucket, last.key)

\* C33: frame of put and delete.  A putObject(b, k, ...) or deleteObject(b, k)
\* changes only the object (b, k): for every other pair (b', k') the catalog
\* row is the same after the call as before it, and getObject(b', k') returns
\* the same result (so the blob is the same too).
C33_PutDeleteFrame ==
    [][\A b \in SlashBucketNames, k \in SlashObjectKeys :
          (last'.op \in {"put_object", "delete_object"}
              /\ last'.bucket = b /\ last'.key = k) =>
             \A b2 \in SlashBucketNames, k2 \in SlashObjectKeys :
                <<b2, k2>> # <<b, k>> =>
                   /\ Matching(db_objects', b2, k2) = Matching(db_objects, b2, k2)
                   /\ S3Service_get_object(buckets', St', b2, k2, "none")
                         = S3Service_get_object(buckets, St, b2, k2, "none")]_vars

\* C34: the storage-level put auto-creates the bucket row.  put_object(b, o)
\* on a bucket without a row succeeds (when no statement fails), and after a
\* successful put_object the bucket row and the object row exist; the bucket
\* rows are those of before plus b, so a bucket that had its row keeps it
\* and no other bucket row changes.
C34_PutEnsuresBucketRow ==
    [][/\ \A b \in BucketNames, k \in ObjectKeys, d \in Data :
            LET r == Storage_put_object(St, b, [key |-> k, data |-> d], "none", 0)
            IN  /\ r.kind = "Ok"
                /\ Storage_bucket_exists(r.st, b)
                /\ Matching(r.st.objects, b, k) # <<>>
       /\ \A b \in BucketNames, k \in ObjectKeys :
            (last'.op = "storage_put_object" /\ last'.bucket = b /\ last'.key = k
                /\ last'.inner = "Ok") =>
               /\ Storage_bucket_exists(St, b)'
               /\ HasRow(b, k)'
               /\ db_buckets' = db_buckets \cup {b}]_vars

\* C34 witness: a put_object into a bucket that had no row has just succeeded
\* and the bucket has its row now.
C34_Witness ==
    /\ last.op = "storage_put_object"
    /\ last.inner = "Ok"
    /\ last.names = <<>>
    /\ Storage_bucket_exists(St, last.bucket)
    /\ HasRow(last.bucket, last.key)

\* C35: metadata round trip.  After a putObject(b, k, ...) that the engine
\* reported as successful, getObject(b, k) returns the content type and the
\* user metadata map given to that putObject: an absent map comes back absent
\* and nothing of an earlier put's metadata is left.
C35_MetadataRoundTrip ==
    (last.op = "put_object" /\ last.kind = "Ok") =>
        LET got == S3Service_get_object(buckets, St, last.bucket, last.key, "none")
        IN  /\ got.kind = "Ok"
            /\ got.content_type = last.content_type
            /\ got.user_metadata = last.user_metadata

\* C36: getObject on an object whose row exists but whose blob is missing or
\* cannot be read fails with an I/O error: get_object returns IoError and no
\* data, the engine hands its caller an error rendered from IoError (neither
\* success nor a not-found error) and no data, and the row stays in place.
C36_MissingBlobIsIoError ==
    /\ \A b \in BucketNames, k \in ObjectKeys :
          HasRow(b, k) =>
             /\ TheRow(b, k).file_path \notin DOMAIN fs =>
                   /\ Storage_get_object(St, b, k, "none").kind = "IoError"
                   /\ Storage_get_object(St, b, k, "none").data = None
                   /\ b \in buckets =>
                         LET got == S3Service_get_object(buckets, St, b, k, "none")
                         IN  /\ got.kind = "BucketError"
                             /\ got.cause = "IoError"
                             /\ got.data = None
             /\ Storage_get_object(St, b, k, "read").kind = "IoError"
             /\ Storage_get_object(St, b, k, "read").data = None
    /\ (last.op = "get_object" /\ last.cause = "IoError") =>
          /\ last.kind \notin {"Ok", "ObjectNotFound", "BucketNotFound"}
          /\ last.data = None
          /\ HasRow(last.bucket, last.key)

\* C36 witness: a getObject on an object whose row is in the catalog and
\* whose blob file is missing has just failed with an I/O error.
C36_Witness ==
    /\ last.op = "get_object"
    /\ last.cause = "IoError"
    /\ HasRow(last.bucket, last.key)
    /\ TheRow(last.bucket, last.key).file_path \notin DOMAIN fs

C38_PutRereadsOwnWrite ==
    \A t \in HandlerThreads :
       (handler[t].op = "put_object" /\ handler[t].wrote) =>
          /\ handler[t].pc \in {"lock_storage_reread", "in_storage_reread"} =>
                /\ HasRow(handler[t].bucket, handler[t].key)
                /\ TheRow(handler[t].bucket, handler[t].key).etag
                      = calculate_etag(handler[t].data)
                /\ FilePath(handler[t].bucket, handler[t].key) \in DOMAIN fs
                /\ fs[FilePath(handler[t].bucket, handler[t].key)] = handler[t].data
          /\ handler[t].pc = "unlock_service" =>
                handler[t].got = Some([kind |-> "Ok", data |-> Some(handler[t].data)])

\* A put has written over another object and re-read its own bytes while a
\* put or delete of the same object with other bytes waits for the engine.
C38_Witness ==
    \E t, u \in HandlerThreads :
       /\ handler[t].op = "put_object"
       /\ handler[t].wrote
       /\ handler[t].pc = "unlock_service"
       /\ handler[t].got = Some([kind |-> "Ok", data |-> Some(handler[t].data)])
       /\ handler[u].pc = "lock_service"
       /\ handler[u].op \in {"put_object", "delete_object"}
       /\ handler[u].bucket = handler[t].bucket
       /\ handler[u].key = handler[t].key
       /\ handler[u].data # handler[t].data
       /\ faulted

\* C39: a GET of an object whose bucket the engine holds and whose key has no
\* object (the storage layer reports ObjectNotFound) is answered with 404,
\* never with 500; 500 is the answer to other failures only.
C39_GetMissingObjectIs404 ==
    (/\ last.op = "get_object"
     /\ last.bucket \in buckets
     /\ ~HasRow(last.bucket, last.key)
     /\ last.cause = "ObjectNotFound") =>
        /\ last.status = 404
        /\ last.status # 500

====
